---- MODULE Spec2Model ----
(***************************************************************************)
(* Model of the music cog (src/music.py): one guild's playback session,    *)
(* its voice client, the coroutines scheduled by the player's `after`      *)
(* callbacks, the autoplay and radio background tasks and the commands     *)
(* that drive them.                                                        *)
(*                                                                         *)
(* Execution model.  Commands and background tasks are asyncio coroutines  *)
(* on one event loop: the code between two `await`s runs atomically, so    *)
(* every action below is one such stretch of code.  The voice client's     *)
(* player runs in its own thread; when a player ends (naturally or by      *)
(* stop()) its `after` callback schedules a coroutine on the event loop    *)
(* with run_coroutine_threadsafe, which the model keeps in `pending` until *)
(* it runs.                                                                *)
(***************************************************************************)
EXTENDS Integers, Sequences, FiniteSets, Bags, TLC

(***************************************************************************)
(* Bounds of the model.                                                    *)
(***************************************************************************)
NTracks == 3      \* video ids the provider can return: 1..NTracks
MaxLoops == 2     \* background tasks (autoplay/radio) started in one run
MaxCmds == 3      \* user commands issued in one run
MaxTime == 2      \* clock ticks in one run
NVideos == 11     \* videos a provider with a long result list knows: 1..NVideos

TrackIds == 1..NTracks
LoopIds == 1..MaxLoops
DequeIds == 1..(MaxLoops + 1)

None == 0         \* a missing dict entry / Python None

VARIABLES
    queues,          \* self.queues[guild_id]: id of the registered deque, or None
    deques,          \* the deque objects: id -> sequence of tracks
    current_track,   \* self.current_track[guild_id], or None
    track_start_time,\* self.track_start_time[guild_id], or -1 when unset
    now_playing,     \* track shown by the now-playing message, or None
    connected,       \* voice_client.is_connected()
    player,          \* voice_client._player
    pending,         \* coroutines scheduled by `after` callbacks, not yet run
    synth,           \* advances of commands/callbacks awaiting communicate.save()
    wispers,         \* wisper commands awaiting communicate.save()
    tasks,           \* the autoplay_loop / radio_loop tasks
    states,          \* the autoplay/radio state dicts (one per started task)
    autoplay_state,  \* self.autoplay_state[guild_id]: id of a state dict, or None
    radio_state,     \* self.radio_state[guild_id]: id of a state dict, or None
    starting,        \* autoplay/radio commands suspended before installing state
    reply,           \* what the last command answered: <<command, "ack"|"error">>
    now,             \* wall clock
    cmds,            \* number of commands issued so far
    stopped,         \* history: stop completed and nothing was started since
    dropped,         \* history: tracks popped by an advance that never rendered
    elsewhere,       \* the entries of a second guild in the five per-guild dicts
    waiting,         \* commands that joined the voice channel and poll is_connected()
    probe,           \* the argument and the result of a call of a module-level function
    stations_file    \* radio_stations.json: whether it exists, and its text

vars == <<queues, deques, current_track, track_start_time, now_playing,
          connected, player, pending, synth, wispers, tasks, states,
          autoplay_state, radio_state, starting, reply, now, cmds, stopped,
          dropped, elsewhere, waiting, probe, stations_file>>

\* What the commands and tasks of this guild's running session never touch
extVars == <<elsewhere, waiting, probe, stations_file>>

sessionVars == <<queues, deques, current_track, track_start_time, now_playing>>
loopVars == <<tasks, states, autoplay_state, radio_state, starting>>

(***************************************************************************)
(* The voice client (discord.VoiceClient) as the code uses it.             *)
(***************************************************************************)
NoPlayer == [kind |-> "none", track |-> None, seek |-> 0, paused |-> FALSE,
             resume |-> FALSE]

\* discord.FFmpegPCMAudio(track["url"]) handed to voice_client.play
TrackPlayer(t, s) == [kind |-> "track", track |-> t, seek |-> s,
                      paused |-> FALSE, resume |-> FALSE]

is_playing(p) == p.kind # "none" /\ ~p.paused
is_paused(p) == p.kind # "none" /\ p.paused

\* voice_client.play raises ClientException when not connected or when a
\* player is running; a paused player is silently replaced.
CanPlay(p) == connected /\ ~is_playing(p)

\* The coroutine a player's `after` callback schedules when the player ends.
AfterOf(p) ==
    CASE p.kind = "track" -> SetToBag({[co |-> "play_next_async", track |-> None, seek |-> 0]})
      [] p.kind = "announce" -> SetToBag({[co |-> "_start_track_async", track |-> p.track, seek |-> 0]})
      [] p.kind = "tts" /\ p.resume -> SetToBag({[co |-> "_resume_track", track |-> p.track, seek |-> p.seek]})
      [] OTHER -> EmptyBag

\* voice_client.stop(): the player is dropped and its thread calls `after`.
StopPending(p) == pending (+) AfterOf(p)

(***************************************************************************)
(* Queue registry.                                                         *)
(***************************************************************************)
\* Allocation that knows only the deques of this guild: a new deque may be
\* the object another guild has registered.
UsedDequesHere(reg, tks) == {reg} \cup {tks[l].queue : l \in LoopIds}

\* The deque objects somebody holds: the registered one, those the tasks
\* keep a reference to, and the one registered for the second guild.
UsedDeques(reg, tks) ==
    {reg} \cup {tks[l].queue : l \in LoopIds} \cup {elsewhere.queues}

\* get_queue: the registered deque, or a new empty one registered on the spot
get_queue(reg, dqs, tks) ==
    IF reg # None THEN [queues |-> reg, deques |-> dqs]
    ELSE LET id == CHOOSE d \in DequeIds :
                       /\ d \notin UsedDeques(reg, tks)
                       /\ \A e \in DequeIds : e \notin UsedDeques(reg, tks) => d <= e
         IN [queues |-> id, deques |-> [dqs EXCEPT ![id] = <<>>]]

\* self.queues.pop(guild_id, None): the deque object lives on only while a
\* task still holds a reference to it
PopQueue(reg, dqs, tks) ==
    IF reg = None \/ reg \in {tks[l].queue : l \in LoopIds} THEN dqs
    ELSE [dqs EXCEPT ![reg] = <<>>]

TheQueue == IF queues = None THEN <<>> ELSE deques[queues]

(***************************************************************************)
(* play_next_async up to its first await: the values it leaves behind and  *)
(* the track it popped (None when it returned early).                      *)
(***************************************************************************)
play_next_async(reg, dqs, cur, np, tks) ==
    IF ~connected
    THEN [queues |-> reg, deques |-> dqs, current |-> cur, np |-> np, popped |-> None]
    ELSE LET g == get_queue(reg, dqs, tks)
             q == g.deques[g.queues]
         IN IF q = <<>>
            THEN [queues |-> g.queues, deques |-> g.deques, current |-> None,
                  np |-> None, popped |-> None]
            ELSE [queues |-> g.queues,
                  deques |-> [g.deques EXCEPT ![g.queues] = Tail(q)],
                  current |-> Head(q), np |-> np, popped |-> Head(q)]


(***************************************************************************)
(* Initial state: the bot has joined the voice channel, nothing is queued, *)
(* no task was started.                                                    *)
(***************************************************************************)
NoTask == [kind |-> "none", pc |-> "done", state |-> None, queue |-> None,
           batch |-> {}, added |-> 0, last_seed |-> None, cur_id |-> None,
           track |-> None, notice |-> "none", cancelled |-> "no",
           query |-> ""]

\* `appended` is history: the tracks the task put on a queue so far.
\* `added` is added_count of radio_loop, and history in an autoplay task: the
\* tracks it appended so far in this pass over its candidates.
\* `query` of a task is history: the description its state held when the
\* task asked the provider for the candidates it is working on.
NoState == [played |-> {}, avoided |-> {}, energy |-> 0, description |-> "",
            seed_id |-> None, start_time |-> 0, appended |-> {}]

\* A guild without an entry in any of the per-guild dicts
NoGuild == [queues |-> None, current_track |-> None, track_start_time |-> -1,
            autoplay_state |-> None, radio_state |-> None]

\* No command is waiting for the voice connection
NoWait == [cmd |-> "none", polls |-> 0, track |-> None, description |-> "",
           energy |-> 0]

\* No module-level function was called

\* radio_stations.json was never written
NoFile == [exists |-> FALSE, text |-> <<>>]

Init ==
    /\ queues = None
    /\ deques = [d \in DequeIds |-> <<>>]
    /\ current_track = None
    /\ track_start_time = -1
    /\ now_playing = None
    /\ connected = TRUE
    /\ player = NoPlayer
    /\ pending = EmptyBag
    /\ synth = EmptyBag
    /\ wispers = EmptyBag
    /\ tasks = [l \in LoopIds |-> NoTask]
    /\ states = [l \in LoopIds |-> NoState]
    /\ autoplay_state = None
    /\ radio_state = None
    /\ starting = EmptyBag
    /\ reply = <<"", "none">>
    /\ now = 0
    /\ cmds = 0
    /\ stopped = FALSE
    /\ dropped = {}
    /\ elsewhere = NoGuild
    /\ waiting = NoWait
    /\ probe = [fn |-> "none"]
    /\ stations_file = NoFile

One(x) == SetToBag({x})

\* A command is issued: the budget of commands and what it answers.
Command(name, outcome) ==
    /\ cmds < MaxCmds
    /\ cmds' = cmds + 1
    /\ reply' = <<name, outcome>>

(***************************************************************************)
(* _start_track: stamp the start time, hand the track to the voice client. *)
(* voice_client.play raises ClientException after the stamp when it cannot *)
(* play, and the caller's remaining statements are skipped.                *)
(***************************************************************************)
_start_track(t) ==
    /\ track_start_time' = now
    /\ IF CanPlay(player)
       THEN /\ player' = TrackPlayer(t, 0)
            /\ dropped' = dropped
       ELSE /\ player' = player
            /\ dropped' = IF connected THEN dropped \cup {t} ELSE dropped

\* send_now_playing, called once _start_track returned
send_now_playing ==
    now_playing' = IF CanPlay(player) /\ current_track # None
                   THEN current_track ELSE now_playing

(***************************************************************************)
(* play <url>                                                              *)
(***************************************************************************)
PlayFetchError ==
    /\ connected
    /\ Command("play", "error")
    /\ UNCHANGED <<sessionVars, loopVars, connected, player, pending, synth,
                   wispers, now, stopped, dropped>>
    /\ UNCHANGED extVars

Play(t) ==
    /\ connected
    /\ LET g == get_queue(queues, deques, tasks)
           appended == [g.deques EXCEPT ![g.queues] = Append(@, t)]
       IN IF is_playing(player) \/ is_paused(player)
          THEN /\ Command("play", "ack")
               /\ queues' = g.queues
               /\ deques' = appended
               /\ UNCHANGED <<current_track, now_playing, synth>>
          ELSE LET r == play_next_async(g.queues, appended, current_track, now_playing, tasks)
               IN /\ Command("play", "none")
                  /\ queues' = r.queues
                  /\ deques' = r.deques
                  /\ current_track' = r.current
                  /\ now_playing' = r.np
                  /\ synth' = IF r.popped = None THEN synth ELSE synth (+) One(r.popped)
    /\ stopped' = FALSE
    /\ UNCHANGED <<track_start_time, loopVars, connected, player, pending,
                   wispers, now, dropped>>
    /\ UNCHANGED extVars

(***************************************************************************)
(* _announce_track, after communicate.save() returned or raised            *)
(***************************************************************************)
AnnounceSynthOk(t) ==
    /\ BagIn(t, synth)
    /\ synth' = synth (-) One(t)
    /\ IF CanPlay(player)
       THEN /\ player' = [TrackPlayer(t, 0) EXCEPT !.kind = "announce"]
            /\ dropped' = dropped
       ELSE /\ player' = player
            /\ dropped' = IF connected THEN dropped \cup {t} ELSE dropped
    /\ UNCHANGED <<sessionVars, loopVars, connected, pending, wispers, reply,
                   now, cmds, stopped>>
    /\ UNCHANGED extVars

AnnounceSynthFail(t) ==
    /\ BagIn(t, synth)
    /\ synth' = synth (-) One(t)
    /\ _start_track(t)
    /\ send_now_playing
    /\ UNCHANGED <<queues, deques, current_track, loopVars, connected, pending,
                   wispers, reply, now, cmds, stopped>>
    /\ UNCHANGED extVars

(***************************************************************************)
(* The player thread: a running player reaches the end of its source.      *)
(***************************************************************************)
PlayerEnds ==
    /\ is_playing(player)
    /\ player' = NoPlayer
    /\ pending' = pending (+) AfterOf(player)
    /\ UNCHANGED <<sessionVars, loopVars, connected, synth, wispers, reply,
                   now, cmds, stopped, dropped>>
    /\ UNCHANGED extVars

(***************************************************************************)
(* The coroutines the `after` callbacks scheduled.                         *)
(***************************************************************************)
RunPlayNext(c) ==
    /\ c.co = "play_next_async"
    /\ LET r == play_next_async(queues, deques, current_track, now_playing, tasks)
       IN /\ queues' = r.queues
          /\ deques' = r.deques
          /\ current_track' = r.current
          /\ now_playing' = r.np
          /\ synth' = IF r.popped = None THEN synth ELSE synth (+) One(r.popped)
    /\ UNCHANGED <<track_start_time, player, dropped>>

_start_track_async(c) ==
    /\ c.co = "_start_track_async"
    /\ IF connected
       THEN _start_track(c.track) /\ send_now_playing
       ELSE UNCHANGED <<track_start_time, player, dropped, now_playing>>
    /\ UNCHANGED <<queues, deques, current_track, synth>>

_resume_track(c) ==
    /\ c.co = "_resume_track"
    /\ IF connected
       THEN /\ current_track' = c.track
            /\ track_start_time' = now - c.seek
            /\ IF CanPlay(player)
               THEN player' = TrackPlayer(c.track, c.seek) /\ dropped' = dropped
               ELSE player' = player /\ dropped' = dropped
       ELSE UNCHANGED <<current_track, track_start_time, player, dropped>>
    /\ UNCHANGED <<queues, deques, now_playing, synth>>

RunPending(c) ==
    /\ BagIn(c, pending)
    /\ pending' = pending (-) One(c)
    /\ \/ RunPlayNext(c)
       \/ _start_track_async(c)
       \/ _resume_track(c)
    /\ UNCHANGED <<loopVars, connected, wispers, reply, now, cmds, stopped>>
    /\ UNCHANGED extVars

(***************************************************************************)
(* pause, resume, skip, stop, clear                                        *)
(***************************************************************************)
Pause ==
    /\ IF is_playing(player)
       THEN Command("pause", "ack") /\ player' = [player EXCEPT !.paused = TRUE]
       ELSE Command("pause", "error") /\ player' = player
    /\ UNCHANGED <<sessionVars, loopVars, connected, pending, synth, wispers,
                   now, stopped, dropped>>
    /\ UNCHANGED extVars

Resume ==
    /\ IF is_paused(player)
       THEN Command("resume", "ack") /\ player' = [player EXCEPT !.paused = FALSE]
       ELSE Command("resume", "error") /\ player' = player
    /\ UNCHANGED <<sessionVars, loopVars, connected, pending, synth, wispers,
                   now, stopped, dropped>>
    /\ UNCHANGED extVars

Skip ==
    /\ IF is_playing(player)
       THEN /\ Command("skip", "ack")
            /\ player' = NoPlayer
            /\ pending' = StopPending(player)
       ELSE /\ Command("skip", "error")
            /\ UNCHANGED <<player, pending>>
    /\ UNCHANGED <<sessionVars, loopVars, connected, synth, wispers, now,
                   stopped, dropped>>
    /\ UNCHANGED extVars

Stop ==
    /\ Command("stop", "ack")
    /\ queues' = None
    /\ deques' = PopQueue(queues, deques, tasks)
    /\ current_track' = None
    /\ now_playing' = None
    /\ player' = NoPlayer
    /\ pending' = StopPending(player)
    /\ stopped' = TRUE
    /\ UNCHANGED <<track_start_time, loopVars, connected, synth, wispers, now,
                   dropped>>
    /\ UNCHANGED extVars

Clear ==
    /\ Command("clear", "ack")
    /\ LET g == get_queue(queues, deques, tasks)
       IN /\ queues' = g.queues
          /\ deques' = [g.deques EXCEPT ![g.queues] = <<>>]
    /\ current_track' = None
    /\ now_playing' = None
    /\ IF is_playing(player)
       THEN player' = NoPlayer /\ pending' = StopPending(player)
       ELSE UNCHANGED <<player, pending>>
    /\ UNCHANGED <<track_start_time, loopVars, connected, synth, wispers, now,
                   stopped, dropped>>
    /\ UNCHANGED extVars


(***************************************************************************)
(* wisper <message>                                                        *)
(***************************************************************************)
Wisper ==
    /\ connected
    /\ Command("wisper", "none")
    /\ LET was_playing == is_playing(player)
           elapsed == IF was_playing /\ current_track # None /\ track_start_time >= 0
                      THEN now - track_start_time ELSE 0
       IN wispers' = wispers (+) One([was_playing |-> was_playing,
                                      current |-> current_track,
                                      elapsed |-> elapsed])
    /\ UNCHANGED <<sessionVars, loopVars, connected, player, pending, synth,
                   now, stopped, dropped>>
    /\ UNCHANGED extVars

\* A failed synthesis after which wisper stops the music all the same
WisperSynthFailStops(w) ==
    /\ BagIn(w, wispers)
    /\ wispers' = wispers (-) One(w)
    /\ player' = IF w.was_playing THEN NoPlayer ELSE player
    /\ pending' = IF w.was_playing THEN StopPending(player) ELSE pending
    /\ UNCHANGED <<sessionVars, loopVars, connected, synth, reply, now, cmds,
                   stopped, dropped>>
    /\ UNCHANGED extVars

\* communicate.save() raised: the error is logged and wisper returns
WisperSynthFail(w) ==
    /\ BagIn(w, wispers)
    /\ wispers' = wispers (-) One(w)
    /\ UNCHANGED <<sessionVars, loopVars, connected, player, pending, synth,
                   reply, now, cmds, stopped, dropped>>
    /\ UNCHANGED extVars

WisperSynthOk(w) ==
    /\ BagIn(w, wispers)
    /\ wispers' = wispers (-) One(w)
    /\ LET stopped_player == IF w.was_playing THEN NoPlayer ELSE player
           tts == [kind |-> "tts", track |-> w.current, seek |-> w.elapsed,
                   paused |-> FALSE, resume |-> w.was_playing /\ w.current # None]
       IN /\ pending' = IF w.was_playing THEN StopPending(player) ELSE pending
          /\ player' = IF CanPlay(stopped_player) THEN tts ELSE stopped_player
    /\ UNCHANGED <<sessionVars, loopVars, connected, synth, reply, now, cmds,
                   stopped, dropped>>
    /\ UNCHANGED extVars

(***************************************************************************)
(* The Skip button of the now-playing message                              *)
(***************************************************************************)
skip_button ==
    /\ now_playing # None
    /\ cmds < MaxCmds
    /\ cmds' = cmds + 1
    /\ IF is_playing(player)
       THEN player' = NoPlayer /\ pending' = StopPending(player)
       ELSE UNCHANGED <<player, pending>>
    /\ UNCHANGED <<sessionVars, loopVars, connected, synth, wispers, reply,
                   now, stopped, dropped>>
    /\ UNCHANGED extVars

(***************************************************************************)
(* The environment: time passes, the voice connection is lost for good.    *)
(***************************************************************************)
AUTOPLAY_DURATION == 7200

\* The instants the clock shows in a run: its first ticks, and the same
\* ticks one second short of two hours later.

Tick ==
    /\ \E d \in {1, AUTOPLAY_DURATION - 1} :
          /\ now + d \in (0..MaxTime) \cup {AUTOPLAY_DURATION - 1 + k : k \in 0..MaxTime}
          /\ now' = now + d
    /\ UNCHANGED <<sessionVars, loopVars, connected, player, pending, synth,
                   wispers, reply, cmds, stopped, dropped>>
    /\ UNCHANGED extVars

\* VoiceClient.disconnect(): stops the player, then the connection is gone
Disconnect ==
    /\ connected
    /\ connected' = FALSE
    /\ player' = NoPlayer
    /\ pending' = StopPending(player)
    /\ UNCHANGED <<sessionVars, loopVars, synth, wispers, reply, now, cmds,
                   stopped, dropped>>
    /\ UNCHANGED extVars

\* leave
Leave ==
    /\ connected
    /\ Command("leave", "ack")
    /\ queues' = None
    /\ deques' = PopQueue(queues, deques, tasks)
    /\ current_track' = None
    /\ now_playing' = None
    /\ connected' = FALSE
    /\ player' = NoPlayer
    /\ pending' = StopPending(player)
    /\ UNCHANGED <<track_start_time, loopVars, synth, wispers, now, stopped,
                   dropped>>
    /\ UNCHANGED extVars


(***************************************************************************)
(* Titles are sequences of characters.  The regular expressions of         *)
(* TITLE_NOISE_PATTERNS and NON_SONG_PATTERNS are sequences of items:      *)
(* a literal character, \s*, \b, \d, .*, $ and an optional group (...)?.   *)
(***************************************************************************)
UpperCase == <<"A", "B", "C", "D", "E", "F", "G", "H", "I", "J", "K", "L", "M",
               "N", "O", "P", "Q", "R", "S", "T", "U", "V", "W", "X", "Y", "Z">>
LowerCase == <<"a", "b", "c", "d", "e", "f", "g", "h", "i", "j", "k", "l", "m",
               "n", "o", "p", "q", "r", "s", "t", "u", "v", "w", "x", "y", "z">>

\* str.lower() on one character
lower(c) ==
    IF \E i \in DOMAIN UpperCase : UpperCase[i] = c
    THEN LowerCase[CHOOSE i \in DOMAIN UpperCase : UpperCase[i] = c]
    ELSE c

IsSpace(c) == c \in {" ", "\t"}
IsWordChar(c) ==
    \/ \E i \in DOMAIN LowerCase : LowerCase[i] = lower(c)
    \/ c \in {"0", "1", "2", "3", "4", "5", "6", "7", "8", "9"}
    \/ c = "_"

Lits(s) == [i \in 1..Len(s) |-> [t |-> "lit", c |-> s[i], p |-> <<>>]]
Tok(t) == <<[t |-> t, c |-> "", p |-> <<>>]>>
Opt(q) == <<[t |-> "opt", c |-> "", p |-> q]>>

\* first position at or after j that holds no white space
RECURSIVE SpaceRunEnd(_, _)
SpaceRunEnd(s, j) ==
    IF j <= Len(s) /\ IsSpace(s[j]) THEN SpaceRunEnd(s, j + 1) ELSE j

\* re.match of pattern p at position j of s under re.IGNORECASE: the position
\* after the match, or -1.  Greedy items try the longest run first.
RECURSIVE Match(_, _, _)
RECURSIVE Greedy(_, _, _, _)
Match(p, s, j) ==
    IF p = <<>> THEN j
    ELSE LET h == Head(p)
             r == Tail(p)
         IN CASE h.t = "lit" ->
                   IF j <= Len(s) /\ lower(s[j]) = lower(h.c) THEN Match(r, s, j + 1) ELSE -1
              [] h.t = "digit" ->
                   IF j <= Len(s) /\ s[j] \in {"0", "1", "2", "3", "4", "5", "6", "7", "8", "9"} THEN Match(r, s, j + 1) ELSE -1
              [] h.t = "wb" -> \* \b: exactly one side is a word character
                   IF (j > 1 /\ IsWordChar(s[j - 1])) # (j <= Len(s) /\ IsWordChar(s[j])) THEN Match(r, s, j) ELSE -1
              [] h.t = "end" -> IF j = Len(s) + 1 THEN Match(r, s, j) ELSE -1
              [] h.t = "opt" ->
                   LET a == Match(h.p \o r, s, j)
                   IN IF a # -1 THEN a ELSE Match(r, s, j)
              [] h.t = "ws" -> Greedy(r, s, j, SpaceRunEnd(s, j))
              [] h.t = "any" -> Greedy(r, s, j, Len(s) + 1)

Greedy(r, s, j, k) ==
    IF k < j THEN -1
    ELSE LET a == Match(r, s, k)
         IN IF a # -1 THEN a ELSE Greedy(r, s, j, k - 1)

\* re.search(p, s)
Search(p, s) == \E j \in 1..(Len(s) + 1) : Match(p, s, j) # -1

\* re.sub(p, "", s): the leftmost non-overlapping matches are removed
RECURSIVE SubFrom(_, _, _)
SubFrom(p, s, j) ==
    IF j > Len(s) THEN <<>>
    ELSE LET e == Match(p, s, j)
         IN IF e > j THEN SubFrom(p, s, e) ELSE <<s[j]>> \o SubFrom(p, s, j + 1)

\* str.strip()
RECURSIVE strip(_)
strip(s) ==
    IF s # <<>> /\ IsSpace(Head(s)) THEN strip(Tail(s))
    ELSE IF s # <<>> /\ IsSpace(s[Len(s)]) THEN strip(SubSeq(s, 1, Len(s) - 1))
    ELSE s

\* re.sub(r"\s+", " ", s)
RECURSIVE CollapseSpaces(_)
CollapseSpaces(s) ==
    IF s = <<>> THEN <<>>
    ELSE IF IsSpace(Head(s))
         THEN <<" ">> \o CollapseSpaces(SubSeq(s, SpaceRunEnd(s, 1), Len(s)))
         ELSE <<Head(s)>> \o CollapseSpaces(Tail(s))

TITLE_NOISE_PATTERNS == <<
    Lits(<<"(", "o", "f", "f", "i", "c", "i", "a", "l">>) \o Tok("ws") \o Opt(Lits(<<"m", "u", "s", "i", "c">>) \o Tok("ws")) \o Lits(<<"v", "i", "d", "e", "o", ")">>),
    Lits(<<"(", "o", "f", "f", "i", "c", "i", "a", "l">>) \o Tok("ws") \o Lits(<<"a", "u", "d", "i", "o", ")">>),
    Lits(<<"(", "o", "f", "f", "i", "c", "i", "a", "l">>) \o Tok("ws") \o Lits(<<"l", "y", "r", "i", "c">>) \o Tok("ws") \o Lits(<<"v", "i", "d", "e", "o", ")">>),
    Lits(<<"(", "l", "y", "r", "i", "c">>) \o Tok("ws") \o Lits(<<"v", "i", "d", "e", "o", ")">>),
    Lits(<<"(", "l", "y", "r", "i", "c">>) \o Opt(Lits(<<"s">>)) \o Lits(<<")">>),
    Lits(<<"(", "a", "u", "d", "i", "o", ")">>),
    Lits(<<"(", "v", "i", "s", "u", "a", "l", "i", "z", "e", "r", ")">>),
    Lits(<<"(", "o", "f", "f", "i", "c", "i", "a", "l">>) \o Tok("ws") \o Lits(<<"v", "i", "s", "u", "a", "l", "i", "z", "e", "r", ")">>),
    Lits(<<"[", "o", "f", "f", "i", "c", "i", "a", "l">>) \o Tok("ws") \o Opt(Lits(<<"m", "u", "s", "i", "c">>) \o Tok("ws")) \o Lits(<<"v", "i", "d", "e", "o", "]">>),
    Lits(<<"[", "o", "f", "f", "i", "c", "i", "a", "l">>) \o Tok("ws") \o Lits(<<"a", "u", "d", "i", "o", "]">>),
    Lits(<<"[", "l", "y", "r", "i", "c">>) \o Opt(Lits(<<"s">>)) \o Lits(<<"]">>),
    Lits(<<"(", "h", "d", ")">>),
    Lits(<<"(", "h", "q", ")">>),
    Lits(<<"(", "4", "k", ")">>),
    Lits(<<"(", "r", "e", "m", "a", "s", "t", "e", "r">>) \o Opt(Lits(<<"e", "d">>)) \o Lits(<<")">>),
    Lits(<<"(", "l", "i", "v", "e", ")">>),
    Lits(<<"(", "a", "c", "o", "u", "s", "t", "i", "c", ")">>),
    Lits(<<"o", "f", "f", "i", "c", "i", "a", "l">>) \o Tok("ws") \o Opt(Lits(<<"m", "u", "s", "i", "c">>) \o Tok("ws")) \o Lits(<<"v", "i", "d", "e", "o">>),
    Lits(<<"|">>) \o Tok("any") \o Tok("end"),
    Lits(<<"-">>) \o Tok("ws") \o Lits(<<"t", "o", "p", "i", "c">>) \o Tok("end")
>>

NON_SONG_PATTERNS == <<
    Tok("wb") \o Lits(<<"i", "n", "t", "e", "r", "v", "i", "e", "w">>) \o Tok("wb"),
    Tok("wb") \o Lits(<<"p", "o", "d", "c", "a", "s", "t">>) \o Tok("wb"),
    Tok("wb") \o Lits(<<"r", "e", "a", "c", "t", "i", "o", "n">>) \o Tok("wb"),
    Tok("wb") \o Lits(<<"r", "e", "v", "i", "e", "w">>) \o Tok("wb"),
    Tok("wb") \o Lits(<<"f", "u", "l", "l", " ", "a", "l", "b", "u", "m">>) \o Tok("wb"),
    Tok("wb") \o Lits(<<"c", "o", "m", "p", "l", "e", "t", "e", " ", "a", "l", "b", "u", "m">>) \o Tok("wb"),
    Tok("wb") \o Lits(<<"l", "i", "v", "e", " ", "s", "t", "r", "e", "a", "m">>) \o Tok("wb"),
    Tok("wb") \o Lits(<<"l", "i", "v", "e", "s", "t", "r", "e", "a", "m">>) \o Tok("wb"),
    Tok("wb") \o Lits(<<"m", "a", "k", "i", "n", "g", " ", "o", "f">>) \o Tok("wb"),
    Tok("wb") \o Lits(<<"b", "e", "h", "i", "n", "d", " ", "t", "h", "e", " ", "s", "c", "e", "n", "e", "s">>) \o Tok("wb"),
    Tok("wb") \o Lits(<<"d", "o", "c", "u", "m", "e", "n", "t", "a", "r", "y">>) \o Tok("wb"),
    Tok("wb") \o Lits(<<"t", "u", "t", "o", "r", "i", "a", "l">>) \o Tok("wb"),
    Tok("wb") \o Lits(<<"l", "e", "s", "s", "o", "n">>) \o Tok("wb"),
    Tok("wb") \o Lits(<<"h", "o", "w", " ", "t", "o">>) \o Tok("wb"),
    Tok("wb") \o Lits(<<"c", "o", "m", "p", "i", "l", "a", "t", "i", "o", "n">>) \o Tok("wb"),
    Tok("wb") \o Lits(<<"m", "i", "x", " ", "2", "0">>) \o Tok("digit") \o Tok("digit") \o Tok("wb"),
    Tok("wb") \o Lits(<<"1", " ", "h", "o", "u", "r">>) \o Tok("wb"),
    Tok("wb") \o Lits(<<"2", " ", "h", "o", "u", "r">>) \o Tok("wb"),
    Tok("wb") \o Lits(<<"3", " ", "h", "o", "u", "r">>) \o Tok("wb"),
    Tok("wb") \o Lits(<<"p", "l", "a", "y", "l", "i", "s", "t">>) \o Tok("wb"),
    Tok("wb") \o Lits(<<"n", "o", "n", "s", "t", "o", "p">>) \o Tok("wb"),
    Tok("wb") \o Lits(<<"m", "e", "g", "a", "m", "i", "x">>) \o Tok("wb")
>>

MIN_SONG_DURATION == 90
MAX_SONG_DURATION == 480

\* the filter with `duration >= 0` for `duration > 0`
is_likely_song_known(title, duration) ==
    LET title_lower == [i \in 1..Len(title) |-> lower(title[i])]
    IN /\ \A k \in DOMAIN NON_SONG_PATTERNS : ~Search(NON_SONG_PATTERNS[k], title_lower)
       /\ (duration >= 0 => ~(duration < MIN_SONG_DURATION \/ duration > MAX_SONG_DURATION))

is_likely_song(title, duration) ==
    LET title_lower == [i \in 1..Len(title) |-> lower(title[i])]
    IN /\ \A k \in DOMAIN NON_SONG_PATTERNS : ~Search(NON_SONG_PATTERNS[k], title_lower)
       /\ (duration > 0 => ~(duration < MIN_SONG_DURATION \/ duration > MAX_SONG_DURATION))

RECURSIVE StripNoise(_, _)
StripNoise(s, k) ==
    IF k > Len(TITLE_NOISE_PATTERNS) THEN s
    ELSE StripNoise(SubFrom(TITLE_NOISE_PATTERNS[k], s, 1), k + 1)

normalize_title(title) ==
    LET normalized == strip([i \in 1..Len(title) |-> lower(title[i])])
    IN strip(CollapseSpaces(StripNoise(normalized, 1)))

(***************************************************************************)
(* The videos the content provider knows: id -> title and duration.        *)
(***************************************************************************)
Catalogue == <<
    [title |-> <<"S", "o", "n", "g", " ", "A", " ", "(", "H", "D", ")">>, duration |-> 200],
    [title |-> <<"s", "o", "n", "g", " ", "a", " ", "(", "O", "f", "f", "i", "c", "i", "a", "l", " ", "A", "u", "d", "i", "o", ")">>, duration |-> 481],
    [title |-> <<"S", "o", "n", "g", " ", "B">>, duration |-> 0],
    [title |-> <<"I", "n", "t", "e", "r", "v", "i", "e", "w", " ", "C">>, duration |-> 200]
>>

Video(id) == Catalogue[((id - 1) % Len(Catalogue)) + 1]

\* normalize_title(track["title"]) of every video, computed once
NormalizedTitle == [id \in 1..NVideos |-> normalize_title(Video(id).title)]

LikelySong == [id \in 1..NVideos |-> is_likely_song(Video(id).title, Video(id).duration)]

\* The normalized title as the sets of the state dicts hold it: titles are
\* compared as strings, so a title is named by the first video that has it.
Key(id) == CHOOSE k \in 1..NVideos :
               /\ NormalizedTitle[k] = NormalizedTitle[id]
               /\ \A m \in 1..NVideos : NormalizedTitle[m] = NormalizedTitle[id] => k <= m



(***************************************************************************)
(* The background tasks.  A task is suspended at one of these awaits:      *)
(*   start      created, not yet run                                       *)
(*   poll       asyncio.sleep at the end of an iteration (5, 10 or 30 s)   *)
(*   related    get_related_videos                                         *)
(*   search1    search_artist_songs / search_radio_songs, first query      *)
(*   search2    the fallback query                                         *)
(*   resolve    get_full_track_info of one song of the batch               *)
(*   announce   communicate.save() inside its own play_next_async          *)
(*   ending     send_to_channel_temp of its last notice                    *)
(*   done       finished or cancelled                                      *)
(***************************************************************************)
QueueLow == 3            \* len(queue) < 3
AutoplayBatch == 5       \* new_songs[:5]
RadioBatch == 8          \* new_songs[:8]
RadioAccept == 5         \* added_count >= 5

Alive(t) == t.pc # "done"

\* Deques nobody can reach any more are forgotten.
Collect(reg, dqs, tks) ==
    [d \in DequeIds |-> IF d \in UsedDeques(reg, tks) THEN dqs[d] ELSE <<>>]

\* A cancellation that the `except Exception` around get_full_track_info
\* swallows (CancelledError as an Exception subclass): the task goes on with
\* the next candidate of its batch.
CancelledSwallowed(t) ==
    IF t.pc = "resolve"
    THEN [t EXCEPT !.cancelled = t.pc]
    ELSE IF t.pc # "done"
    THEN [t EXCEPT !.pc = "done", !.cancelled = t.pc, !.queue = None,
                   !.batch = {}, !.track = None, !.query = ""]
    ELSE t

\* task.cancel(): CancelledError is raised at the await the task is suspended
\* at; `except Exception` does not catch it, the task ends.
Cancelled(t) ==
    IF Alive(t)
    THEN [t EXCEPT !.pc = "done", !.cancelled = t.pc, !.queue = None,
                   !.batch = {}, !.track = None, !.query = ""]
    ELSE t

cancel(tks, l) == IF l = None THEN tks ELSE [tks EXCEPT ![l] = Cancelled(tks[l])]

Registry(kind) == IF kind = "autoplay" THEN autoplay_state ELSE radio_state

\* A task that ends without its `finally` clause
FinallyKeep(kind) == UNCHANGED <<autoplay_state, radio_state>>

\* `finally: self.<kind>_state.pop(guild_id, None)`
FinallyPop(kind) ==
    /\ autoplay_state' = IF kind = "autoplay" THEN None ELSE autoplay_state
    /\ radio_state' = IF kind = "radio" THEN None ELSE radio_state

Sleep(t) == [t EXCEPT !.pc = "poll", !.queue = None, !.batch = {}, !.added = 0,
                      !.track = None, !.cur_id = None, !.query = ""]
Ended(t) == [t EXCEPT !.pc = "done", !.queue = None, !.batch = {}, !.added = 0,
                      !.track = None, !.cur_id = None, !.query = ""]
Ending(t, notice) == [Ended(t) EXCEPT !.pc = "ending", !.notice = notice]

\* A budget check that lets the task run through the second at which the
\* two hours are over.
ExpiredLate(st) == now - states[st].start_time > AUTOPLAY_DURATION

\* elapsed >= AUTOPLAY_DURATION
Expired(st) == now - states[st].start_time >= AUTOPLAY_DURATION

\* The top of `while True`, reached from the task's start or from a sleep.
Poll(l) ==
    LET t == tasks[l]
        st == IF t.kind = "radio" \/ t.pc = "start" THEN Registry(t.kind) ELSE t.state
    IN
    /\ t.pc \in {"start", "poll"}
    /\ IF st = None
       THEN \* `if not state: return` / `if not state: break`
            /\ tasks' = [tasks EXCEPT ![l] = Ended(t)]
            /\ UNCHANGED <<queues, deques, autoplay_state, radio_state>>
       ELSE IF Expired(st)
       THEN /\ tasks' = [tasks EXCEPT ![l] = Ending([t EXCEPT !.state = st], "summary")]
            /\ UNCHANGED <<queues, deques, autoplay_state, radio_state>>
       ELSE IF ~connected
       THEN /\ tasks' = [tasks EXCEPT ![l] = Ended([t EXCEPT !.state = st])]
            /\ FinallyPop(t.kind)
            /\ UNCHANGED <<queues, deques>>
       ELSE LET g == get_queue(queues, deques, tasks)
                t1 == [t EXCEPT !.state = st, !.query = states[st].description]
                related == /\ t.kind = "radio"
                           /\ current_track # None
                           /\ current_track # t.last_seed
            IN /\ queues' = g.queues
               /\ tasks' = [tasks EXCEPT ![l] =
                     IF Len(g.deques[g.queues]) >= QueueLow THEN Sleep(t1)
                     ELSE IF related
                          THEN [t1 EXCEPT !.pc = "related", !.queue = g.queues,
                                          !.cur_id = current_track]
                          ELSE [t1 EXCEPT !.pc = "search1", !.queue = g.queues]]
               /\ deques' = Collect(queues', g.deques, tasks')
               /\ UNCHANGED <<autoplay_state, radio_state>>
    /\ UNCHANGED <<current_track, track_start_time, now_playing, states,
                   starting, connected, player, pending, synth, wispers,
                   reply, now, cmds, stopped, dropped>>
    /\ UNCHANGED extVars

\* A result list taken as it is, without the test against played_titles
AllSongs(found, kind, st) == found

\* The songs of a result list that are new to the session
NewSongs(found, kind, st) ==
    {s \in found : /\ Key(s) \notin states[st].played
                   /\ kind = "radio" => Key(s) \notin states[st].avoided}

\* random.shuffle(new_songs) without the slice that follows it
BatchesUncut(new, kind) == {new}

\* random.shuffle(new_songs); songs_to_add = new_songs[:n]
Batches(new, kind) ==
    LET n == IF kind = "autoplay" THEN AutoplayBatch ELSE RadioBatch
    IN {b \in SUBSET new : Cardinality(b) = IF Cardinality(new) < n THEN Cardinality(new) ELSE n}

StartBatch(t, b) == [t EXCEPT !.pc = "resolve", !.batch = b, !.added = 0]


\* get_related_videos returned `found`, or raised
Related(l, ok, found) ==
    LET t == tasks[l]
        new == IF ok THEN NewSongs(found, t.kind, t.state) ELSE {}
    IN
    /\ t.pc = "related"
    /\ IF new # {}
       THEN \E b \in Batches(new, t.kind) :
               tasks' = [tasks EXCEPT ![l] = StartBatch([t EXCEPT !.last_seed = t.cur_id], b)]
       ELSE tasks' = [tasks EXCEPT ![l] =
                        [t EXCEPT !.pc = "search1", !.query = states[t.state].description]]
    /\ UNCHANGED <<queues, deques, current_track, track_start_time, now_playing,
                   states, autoplay_state, radio_state, starting, connected,
                   player, pending, synth, wispers, reply, now, cmds, stopped,
                   dropped>>
    /\ UNCHANGED extVars

\* the first search returned `found`, or raised
Search1(l, ok, found) ==
    LET t == tasks[l]
        new == NewSongs(found, t.kind, t.state)
    IN
    /\ t.pc = "search1"
    /\ IF ~ok
       THEN tasks' = [tasks EXCEPT ![l] = Sleep(t)]
       ELSE IF new # {}
       THEN \E b \in Batches(new, t.kind) : tasks' = [tasks EXCEPT ![l] = StartBatch(t, b)]
       ELSE tasks' = [tasks EXCEPT ![l] =
                        [t EXCEPT !.pc = "search2", !.query = states[t.state].description]]
    /\ deques' = Collect(queues, deques, tasks')
    /\ UNCHANGED <<queues, current_track, track_start_time, now_playing,
                   states, autoplay_state, radio_state, starting, connected,
                   player, pending, synth, wispers, reply, now, cmds, stopped,
                   dropped>>
    /\ UNCHANGED extVars

\* A fallback search after which an autoplay task without a new song backs
\* off and retries, as a radio task does.
Search2Retry(l, ok, found) ==
    LET t == tasks[l]
        new == IF ok THEN NewSongs(found, t.kind, t.state) ELSE {}
    IN
    /\ t.pc = "search2"
    /\ IF new # {}
       THEN \E b \in Batches(new, t.kind) : tasks' = [tasks EXCEPT ![l] = StartBatch(t, b)]
       ELSE tasks' = [tasks EXCEPT ![l] = [Sleep(t) EXCEPT !.notice = "running low"]]
    /\ deques' = Collect(queues, deques, tasks')
    /\ UNCHANGED <<queues, current_track, track_start_time, now_playing,
                   states, autoplay_state, radio_state, starting, connected,
                   player, pending, synth, wispers, reply, now, cmds, stopped,
                   dropped>>
    /\ UNCHANGED extVars

\* the fallback search returned `found`, or raised
Search2(l, ok, found) ==
    LET t == tasks[l]
        new == IF ok THEN NewSongs(found, t.kind, t.state) ELSE {}
    IN
    /\ t.pc = "search2"
    /\ IF new # {}
       THEN \E b \in Batches(new, t.kind) : tasks' = [tasks EXCEPT ![l] = StartBatch(t, b)]
       ELSE IF t.kind = "autoplay"
       THEN tasks' = [tasks EXCEPT ![l] = Ending(t, "ran out")]
       ELSE tasks' = [tasks EXCEPT ![l] = [Sleep(t) EXCEPT !.notice = "running low"]]
    /\ deques' = Collect(queues, deques, tasks')
    /\ UNCHANGED <<queues, current_track, track_start_time, now_playing,
                   states, autoplay_state, radio_state, starting, connected,
                   player, pending, synth, wispers, reply, now, cmds, stopped,
                   dropped>>
    /\ UNCHANGED extVars


\* get_full_track_info of song s returned, or raised.  Once the for loop
\* over the batch is over the task checks the voice client and its own
\* reference `queue`, and advances up to communicate.save().
Resolve(l, s, ok) ==
    LET t == tasks[l]
        accepted == ok /\ (t.kind = "radio" => LikelySong[s])
        t1 == [t EXCEPT !.batch = t.batch \ {s},
                        !.added = IF accepted THEN t.added + 1 ELSE t.added]
        dqs == IF accepted THEN [deques EXCEPT ![t.queue] = Append(@, s)] ELSE deques
        over == t1.batch = {} \/ (t.kind = "radio" /\ t1.added >= RadioAccept)
    IN
    /\ t.pc = "resolve"
    /\ s \in t.batch
    /\ states' = IF ~ok THEN states
                 ELSE [states EXCEPT ![t.state] =
                         [@ EXCEPT !.played = @ \cup {Key(s)},
                                   !.seed_id = IF t.kind = "radio" /\ accepted /\ @ = None
                                               THEN s ELSE @,
                                   !.appended = IF accepted THEN @ \cup {s} ELSE @]]
    /\ IF over
       THEN \* the task's own play_next_async call
            IF ~is_playing(player) /\ ~is_paused(player) /\ dqs[t1.queue] # <<>>
            THEN LET r == play_next_async(queues, dqs, current_track, now_playing, tasks)
                 IN /\ queues' = r.queues
                    /\ current_track' = r.current
                    /\ now_playing' = r.np
                    /\ tasks' = [tasks EXCEPT ![l] =
                          IF r.popped = None THEN Sleep(t1)
                          ELSE [Sleep(t1) EXCEPT !.pc = "announce", !.track = r.popped]]
                    /\ deques' = Collect(queues', r.deques, tasks')
            ELSE /\ tasks' = [tasks EXCEPT ![l] = Sleep(t1)]
                 /\ deques' = Collect(queues, dqs, tasks')
                 /\ UNCHANGED <<queues, current_track, now_playing>>
       ELSE /\ tasks' = [tasks EXCEPT ![l] = t1]
            /\ deques' = dqs
            /\ UNCHANGED <<queues, current_track, now_playing>>
    /\ UNCHANGED <<track_start_time, autoplay_state, radio_state, starting,
                   connected, player, pending, synth, wispers, reply, now,
                   cmds, stopped, dropped>>
    /\ UNCHANGED extVars

\* communicate.save() of the task's own advance returned: the announcement
\* is handed to the voice client; a ClientException ends the task through
\* its `except Exception` handler.
TaskSynthOk(l) ==
    LET t == tasks[l]
    IN
    /\ t.pc = "announce"
    /\ IF CanPlay(player)
       THEN /\ player' = [TrackPlayer(t.track, 0) EXCEPT !.kind = "announce"]
            /\ tasks' = [tasks EXCEPT ![l] = Sleep(t)]
            /\ dropped' = dropped
       ELSE /\ player' = player
            /\ tasks' = [tasks EXCEPT ![l] = Ending(t, "error")]
            /\ dropped' = IF connected THEN dropped \cup {t.track} ELSE dropped
    /\ UNCHANGED <<sessionVars, states, autoplay_state, radio_state, starting,
                   connected, pending, synth, wispers, reply, now, cmds, stopped>>
    /\ UNCHANGED extVars

TaskSynthFail(l) ==
    LET t == tasks[l]
    IN
    /\ t.pc = "announce"
    /\ _start_track(t.track)
    /\ send_now_playing
    /\ tasks' = [tasks EXCEPT ![l] = IF CanPlay(player) THEN Sleep(t) ELSE Ending(t, "error")]
    /\ UNCHANGED <<queues, deques, current_track, states, autoplay_state,
                   radio_state, starting, connected, pending, synth, wispers,
                   reply, now, cmds, stopped>>
    /\ UNCHANGED extVars

\* The last notice was sent: `finally` runs.
Finish(l) ==
    /\ tasks[l].pc = "ending"
    /\ tasks' = [tasks EXCEPT ![l] = Ended(tasks[l])]
    /\ FinallyPop(tasks[l].kind)
    /\ UNCHANGED <<sessionVars, states, starting, connected, player, pending,
                   synth, wispers, reply, now, cmds, stopped, dropped>>
    /\ UNCHANGED extVars

(***************************************************************************)
(* autoplay <artist>, radio <description>: up to `await send_temp`, and    *)
(* from there on.                                                          *)
(***************************************************************************)
Descriptions == {"jazz", "rock"}

FreeSlots == {l \in LoopIds : tasks[l].kind = "none"}

\* "Clear queue and stop current song for fresh start"
FreshStart(tks) ==
    /\ queues' = None
    /\ deques' = Collect(None, deques, tks)
    /\ current_track' = None
    /\ now_playing' = None
    /\ IF is_playing(player)
       THEN player' = NoPlayer /\ pending' = StopPending(player)
       ELSE UNCHANGED <<player, pending>>

Autoplay ==
    /\ connected
    /\ Cardinality(FreeSlots) > BagCardinality(starting)
    /\ Command("autoplay", "none")
    /\ tasks' = cancel(tasks, autoplay_state)
    /\ autoplay_state' = None
    /\ FreshStart(tasks')
    /\ starting' = starting (+) One([cmd |-> "autoplay", description |-> "artist", energy |-> 0])
    /\ stopped' = FALSE
    /\ UNCHANGED <<track_start_time, states, radio_state, connected, synth,
                   wispers, now, dropped>>
    /\ UNCHANGED extVars

\* stop_radio_and_autoplay
stop_radio_and_autoplay(tks) == cancel(cancel(tks, autoplay_state), radio_state)

Radio(description) ==
    /\ connected
    /\ Cardinality(FreeSlots) > BagCardinality(starting)
    /\ Command("radio", "none")
    /\ tasks' = stop_radio_and_autoplay(tasks)
    /\ autoplay_state' = None
    /\ radio_state' = None
    /\ FreshStart(tasks')
    /\ starting' = starting (+) One([cmd |-> "radio", description |-> description, energy |-> 0])
    /\ stopped' = FALSE
    /\ UNCHANGED <<track_start_time, states, connected, synth, wispers, now,
                   dropped>>
    /\ UNCHANGED extVars

\* the state dict is installed and the task created
Install(c) ==
    LET l == CHOOSE f \in FreeSlots : \A e \in FreeSlots : f <= e
    IN
    /\ BagIn(c, starting)
    /\ starting' = starting (-) One(c)
    /\ states' = [states EXCEPT ![l] = [NoState EXCEPT !.description = c.description,
                                                        !.energy = c.energy,
                                                        !.start_time = now]]
    /\ tasks' = [tasks EXCEPT ![l] = [NoTask EXCEPT !.kind = c.cmd, !.pc = "start"]]
    /\ autoplay_state' = IF c.cmd = "autoplay" THEN l ELSE autoplay_state
    /\ radio_state' = IF c.cmd = "radio" THEN l ELSE radio_state
    /\ stopped' = FALSE
    /\ UNCHANGED <<sessionVars, connected, player, pending, synth, wispers,
                   reply, now, cmds, dropped>>
    /\ UNCHANGED extVars

(***************************************************************************)
(* stopautoplay, stopradio                                                 *)
(***************************************************************************)
stop_autoplay ==
    /\ IF autoplay_state = None
       THEN Command("stopautoplay", "error") /\ UNCHANGED <<tasks, autoplay_state>>
       ELSE /\ Command("stopautoplay", "ack")
            /\ tasks' = cancel(tasks, autoplay_state)
            /\ autoplay_state' = None
    /\ deques' = Collect(queues, deques, tasks')
    /\ UNCHANGED <<queues, current_track, track_start_time, now_playing,
                   states, radio_state, starting, connected, player, pending,
                   synth, wispers, now, stopped, dropped>>
    /\ UNCHANGED extVars

stop_radio ==
    /\ IF radio_state = None
       THEN Command("stopradio", "error") /\ UNCHANGED <<tasks, radio_state>>
       ELSE /\ Command("stopradio", "ack")
            /\ tasks' = cancel(tasks, radio_state)
            /\ radio_state' = None
    /\ deques' = Collect(queues, deques, tasks')
    /\ UNCHANGED <<queues, current_track, track_start_time, now_playing,
                   states, autoplay_state, starting, connected, player,
                   pending, synth, wispers, now, stopped, dropped>>
    /\ UNCHANGED extVars

(***************************************************************************)
(* tune, dial, static                                                      *)
(***************************************************************************)
\* get_queue without the queue.clear() that follows it
KeepQueue ==
    LET g == get_queue(queues, deques, tasks)
    IN /\ queues' = g.queues
       /\ deques' = g.deques

ClearQueue ==
    LET g == get_queue(queues, deques, tasks)
    IN /\ queues' = g.queues
       /\ deques' = [g.deques EXCEPT ![g.queues] = <<>>]

tune(new_description) ==
    /\ IF radio_state = None
       THEN Command("tune", "error") /\ UNCHANGED <<states, queues, deques>>
       ELSE /\ Command("tune", "ack")
            /\ states' = [states EXCEPT ![radio_state].description = new_description]
            /\ ClearQueue
    /\ UNCHANGED <<current_track, track_start_time, now_playing, tasks,
                   autoplay_state, radio_state, starting, connected, player,
                   pending, synth, wispers, now, stopped, dropped>>
    /\ UNCHANGED extVars


\* dial without the clamping of min(2, ...) and max(-2, ...)
dialUnclamped(direction) ==
    /\ IF radio_state = None \/ direction \notin {"up", "down"}
       THEN Command("dial", "error") /\ UNCHANGED <<states, queues, deques>>
       ELSE /\ Command("dial", "ack")
            /\ states' = [states EXCEPT ![radio_state].energy =
                            IF direction = "up" THEN @ + 1 ELSE @ - 1]
            /\ ClearQueue
    /\ UNCHANGED <<current_track, track_start_time, now_playing, tasks,
                   autoplay_state, radio_state, starting, connected, player,
                   pending, synth, wispers, now, stopped, dropped>>
    /\ UNCHANGED extVars

dial(direction) ==
    /\ IF radio_state = None \/ direction \notin {"up", "down"}
       THEN Command("dial", "error") /\ UNCHANGED <<states, queues, deques>>
       ELSE /\ Command("dial", "ack")
            /\ states' = [states EXCEPT ![radio_state].energy =
                            IF direction = "up" THEN (IF @ + 1 > 2 THEN 2 ELSE @ + 1)
                            ELSE (IF @ - 1 < -2 THEN -2 ELSE @ - 1)]
            /\ ClearQueue
    /\ UNCHANGED <<current_track, track_start_time, now_playing, tasks,
                   autoplay_state, radio_state, starting, connected, player,
                   pending, synth, wispers, now, stopped, dropped>>
    /\ UNCHANGED extVars

static ==
    /\ IF radio_state = None \/ current_track = None
       THEN Command("static", "error") /\ UNCHANGED <<states, player, pending>>
       ELSE /\ Command("static", "ack")
            /\ states' = [states EXCEPT ![radio_state].avoided = @ \cup {Key(current_track)}]
            /\ IF is_playing(player)
               THEN player' = NoPlayer /\ pending' = StopPending(player)
               ELSE UNCHANGED <<player, pending>>
    /\ UNCHANGED <<sessionVars, tasks, autoplay_state, radio_state, starting,
                   connected, synth, wispers, now, stopped, dropped>>
    /\ UNCHANGED extVars

(***************************************************************************)
(* The module-level functions called on their own: `probe` holds the       *)
(* arguments of one call and, once the call was made, what it returned.    *)
(***************************************************************************)
\* The state after construction, but for the probe and the stations file
Constructed ==
    /\ queues = None
    /\ deques = [d \in DequeIds |-> <<>>]
    /\ current_track = None
    /\ track_start_time = -1
    /\ now_playing = None
    /\ connected = TRUE
    /\ player = NoPlayer
    /\ pending = EmptyBag
    /\ synth = EmptyBag
    /\ wispers = EmptyBag
    /\ tasks = [l \in LoopIds |-> NoTask]
    /\ states = [l \in LoopIds |-> NoState]
    /\ autoplay_state = None
    /\ radio_state = None
    /\ starting = EmptyBag
    /\ reply = <<"", "none">>
    /\ now = 0
    /\ cmds = 0
    /\ stopped = FALSE
    /\ dropped = {}
    /\ elsewhere = NoGuild
    /\ waiting = NoWait

\* Titles of uploads: what the uploader calls the song, and the decorations
\* that TITLE_NOISE_PATTERNS is there to strip
MaxDecorations == 2

Decorations == <<
    <<"(", "O", "f", "f", "i", "c", "i", "a", "l", " ", "V", "i", "d", "e", "o", ")">>,
    <<"(", "O", "f", "f", "i", "c", "i", "a", "l", " ", "A", "u", "d", "i", "o", ")">>,
    <<"[", "O", "f", "f", "i", "c", "i", "a", "l", " ", "M", "u", "s", "i", "c", " ", "V", "i", "d", "e", "o", "]">>,
    <<"(", "L", "y", "r", "i", "c", "s", ")">>,
    <<"(", "H", "D", ")">>,
    <<"(", "H", "Q", ")">>,
    <<"(", "4", "K", ")">>,
    <<"|", " ", "V", "E", "V", "O">>,
    <<"-", " ", "T", "o", "p", "i", "c">>
>>

RECURSIVE Decorate(_, _)
Decorate(base, ds) ==
    IF ds = <<>> THEN base
    ELSE Decorate(base \o <<" ">> \o Decorations[Head(ds)], Tail(ds))

\* normalize_title(title), and normalize_title of the undecorated title
NormalizeTitle ==
    /\ probe.fn = "title"
    /\ probe' = [probe EXCEPT !.fn = "normalize_title",
                              !.key = normalize_title(probe.title),
                              !.base_key = normalize_title(probe.base)]
    /\ UNCHANGED <<sessionVars, loopVars, connected, player, pending, synth,
                   wispers, reply, now, cmds, stopped, dropped, elsewhere, waiting,
                   stations_file>>

\* The titles asked about: a base, then up to MaxDecorations different
\* decorations in any order
SpecTitles ==
    /\ LET Bases == {<<"S", "o", "n", "g">>,
                         <<"A", "r", "t", "i", "s", "t", " ", "-", " ", "S", "o", "n", "g">>}
               Orders ==
                   {ds \in UNION {[1..n -> DOMAIN Decorations] : n \in 0..MaxDecorations} :
                       \A i, j \in DOMAIN ds : i # j => ds[i] # ds[j]}
           IN
           /\ Constructed
           /\ stations_file = NoFile
           /\ probe \in {[fn |-> "title", base |-> b, decorations |-> ds,
                          title |-> Decorate(b, ds), key |-> <<>>, base_key |-> <<>>] :
                            b \in Bases, ds \in Orders}
    /\ [][NormalizeTitle]_vars

\* is_likely_song(title, duration)
IsLikelySong ==
    /\ probe.fn = "song"
    /\ probe' = [probe EXCEPT !.fn = "is_likely_song",
                              !.result = is_likely_song(probe.title, probe.duration)]
    /\ UNCHANGED <<sessionVars, loopVars, connected, player, pending, synth,
                   wispers, reply, now, cmds, stopped, dropped, elsewhere, waiting,
                   stations_file>>

\* Titles for is_likely_song: those of the tests, with whether one of the
\* words of NON_SONG_PATTERNS stands in them as a word of its own.  Of the
\* durations 0 is an unknown one; the others lie around the thresholds.
SpecSongs ==
    /\ LET SongTitles == {
                   [title |-> <<"N", "o", "r", "m", "a", "l", " ", "S", "o", "n", "g">>,
                    non_song |-> FALSE],
                   [title |-> <<"U", "n", "k", "n", "o", "w", "n", " ", "D", "u", "r", "a", "t", "i", "o", "n", " ", "S", "o", "n", "g">>,
                    non_song |-> FALSE],
                   [title |-> <<"S", "o", "n", "g", " ", "P", "r", "e", "v", "i", "e", "w">>,
                    non_song |-> FALSE],
                   [title |-> <<"D", "r", "a", "k", "e", " ", "I", "n", "t", "e", "r", "v", "i", "e", "w">>,
                    non_song |-> TRUE],
                   [title |-> <<"F", "u", "l", "l", " ", "A", "l", "b", "u", "m">>,
                    non_song |-> TRUE],
                   [title |-> <<"H", "o", "w", " ", "t", "o", " ", "P", "l", "a", "y", " ", "S", "o", "n", "g">>,
                    non_song |-> TRUE]
               }
               Durations == {0, 1, 89, 90, 91, 479, 480, 481, 600, 601}
           IN
           /\ Constructed
           /\ stations_file = NoFile
           /\ probe \in {[fn |-> "song", title |-> s.title, non_song |-> s.non_song,
                          duration |-> d, result |-> FALSE] :
                            s \in SongTitles, d \in Durations}
    /\ [][IsLikelySong]_vars

(***************************************************************************)
(* Station persistence.  Python values are trees: a string, an integer or  *)
(* a dict, the items of a dict in insertion order.  The text of the file   *)
(* is a sequence of tokens: the punctuation of JSON, string and number     *)
(* literals (the layout of indent=2 is white space between tokens), text   *)
(* that is no JSON token, and bytes that are not text in the encoding      *)
(* open() reads with.                                                      *)
(***************************************************************************)
PyStr(s) == [t |-> "str", s |-> s, n |-> 0, items |-> <<>>]
PyDict(items) == [t |-> "dict", s |-> "", n |-> 0, items |-> items]
Item(k, v) == [k |-> k, v |-> v]

\* a token of the text: "punct" with its character, "str" with its string,
\* "num" with its number, "garbage" (no JSON token), "byte" (no text)
Token(k, s, n) == [k |-> k, s |-> s, n |-> n]
Punct(c) == Token("punct", c, 0)

\* json.dump(data, f, indent=2)
RECURSIVE dump(_)
RECURSIVE dumpItems(_)
dump(v) ==
    CASE v.t = "str" -> <<Token("str", v.s, 0)>>
      [] v.t = "int" -> <<Token("num", "", v.n)>>
      [] v.t = "dict" -> <<Punct("{")>> \o dumpItems(v.items) \o <<Punct("}")>>

dumpItems(items) ==
    IF items = <<>> THEN <<>>
    ELSE <<Token("str", Head(items).k, 0), Punct(":")>> \o dump(Head(items).v)
         \o (IF Len(items) > 1 THEN <<Punct(",")>> ELSE <<>>)
         \o dumpItems(Tail(items))

\* d[k] = v on the items of a dict: a key that is there keeps its place
RECURSIVE SetItem(_, _, _)
SetItem(items, k, v) ==
    IF items = <<>> THEN <<Item(k, v)>>
    ELSE IF Head(items).k = k THEN <<Item(k, v)>> \o Tail(items)
    ELSE <<Head(items)>> \o SetItem(Tail(items), k, v)

\* json.load: the value a prefix of the tokens stands for and the tokens
\* after it, or a JSONDecodeError
ParseError == [ok |-> FALSE, v |-> PyDict(<<>>), rest |-> <<>>]

RECURSIVE parse(_)
RECURSIVE parseItems(_, _)
parse(ts) ==
    IF ts = <<>> THEN ParseError
    ELSE LET h == Head(ts)
         IN CASE h.k = "str" -> [ok |-> TRUE, v |-> PyStr(h.s), rest |-> Tail(ts)]
              [] h.k = "num" -> [ok |-> TRUE, v |-> [PyStr("") EXCEPT !.t = "int", !.n = h.n], rest |-> Tail(ts)]
              [] h = Punct("{") ->
                   IF Len(ts) >= 2 /\ ts[2] = Punct("}")
                   THEN [ok |-> TRUE, v |-> PyDict(<<>>), rest |-> SubSeq(ts, 3, Len(ts))]
                   ELSE parseItems(Tail(ts), <<>>)
              [] OTHER -> ParseError

parseItems(ts, items) ==
    IF Len(ts) < 2 \/ ts[1].k # "str" \/ ts[2] # Punct(":") THEN ParseError
    ELSE LET r == parse(SubSeq(ts, 3, Len(ts)))
         IN IF ~r.ok \/ r.rest = <<>> THEN ParseError
            ELSE LET all == SetItem(items, ts[1].s, r.v)
                 IN IF Head(r.rest) = Punct("}")
                    THEN [ok |-> TRUE, v |-> PyDict(all), rest |-> Tail(r.rest)]
                    ELSE IF Head(r.rest) = Punct(",")
                    THEN parseItems(Tail(r.rest), all)
                    ELSE ParseError

\* load_stations(): what it returns, or that it raised.  Reading the file
\* decodes it, and only JSONDecodeError and IOError are caught.
load_stations(file) ==
    IF ~file.exists THEN [raised |-> FALSE, value |-> PyDict(<<>>)]
    ELSE IF \E i \in DOMAIN file.text : file.text[i].k = "byte"
    THEN [raised |-> TRUE, value |-> PyDict(<<>>)]
    ELSE LET r == parse(file.text)
         IN IF r.ok /\ r.rest = <<>>
            THEN [raised |-> FALSE, value |-> r.v]
            ELSE [raised |-> FALSE, value |-> PyDict(<<>>)]

\* save_stations(data): open(STATIONS_FILE, "w") truncates the file
save_stations(data) == [exists |-> TRUE, text |-> dump(data)]

\* What station save and station delete pass to save_stations, and what the
\* tests pass
MaxSaves == 2

Station(description, energy) ==
    PyDict(<<Item("description", PyStr(description)), Item("energy", [PyStr("") EXCEPT !.t = "int", !.n = energy])>>)

SaveStations(data) ==
    /\ probe.saves < MaxSaves
    /\ stations_file' = save_stations(data)
    /\ probe' = [probe EXCEPT !.fn = "save_stations", !.saves = @ + 1,
                              !.saved = data]
    /\ UNCHANGED <<sessionVars, loopVars, connected, player, pending, synth,
                   wispers, reply, now, cmds, stopped, dropped, elsewhere, waiting>>

LoadStations ==
    /\ probe.fn # "load_stations"
    /\ LET r == load_stations(stations_file)
       IN probe' = [probe EXCEPT !.fn = "load_stations", !.raised = r.raised,
                                 !.loaded = r.value]
    /\ UNCHANGED stations_file
    /\ UNCHANGED <<sessionVars, loopVars, connected, player, pending, synth,
                   wispers, reply, now, cmds, stopped, dropped, elsewhere, waiting>>

NextStations ==
    \/ \E data \in {
          PyDict(<<>>),
          PyDict(<<Item("old", PyStr("data"))>>),
          PyDict(<<Item("new", PyStr("data"))>>),
          PyDict(<<Item("123456", PyDict(<<>>))>>),
          PyDict(<<Item("123456", PyDict(<<Item("chill", Station("lo-fi beats", -1))>>))>>),
          PyDict(<<Item("123456", PyDict(<<Item("chill", Station("lo-fi beats", -1)),
                                           Item("hype", Station("workout music", 2))>>))>>),
          PyDict(<<Item("guild_1", PyDict(<<Item("station_a", Station("jazz cafe", 0))>>)),
                   Item("guild_2", PyDict(<<Item("station_b", Station("rock classics", 1))>>))>>)
          } : SaveStations(data)
    \/ LoadStations

\* The file before the first call: missing, written by an earlier run, cut
\* off in the middle, not JSON at all, or not text at all
SpecStations ==
    /\ LET Found == {
          [found |-> "missing", file |-> NoFile],
          [found |-> "json", file |-> save_stations(PyDict(<<Item("old", PyStr("data"))>>))],
          [found |-> "invalid", file |-> [exists |-> TRUE, text |-> <<>>]],
          [found |-> "invalid", file |-> [exists |-> TRUE,
                                          text |-> <<Punct("{"), Token("str", "old", 0), Punct(":")>>]],
          [found |-> "invalid", file |-> [exists |-> TRUE,
                                          text |-> <<Token("garbage", "", 0), Punct("{"), Punct("{"), Punct("{")>>]],
          [found |-> "invalid", file |-> [exists |-> TRUE, text |-> <<Token("byte", "", 0), Token("byte", "", 0)>>]]
          }
       IN /\ Constructed
          /\ \E f \in Found :
                /\ stations_file = f.file
                /\ probe = [fn |-> "none", found |-> f.found, saves |-> 0,
                            saved |-> PyDict(<<>>), raised |-> FALSE,
                            loaded |-> PyDict(<<>>)]
    /\ [][NextStations]_vars

(***************************************************************************)
(* The readiness wait of play, autoplay, radio and station <name>.  The    *)
(* command found no ready voice client; unless its author is in no voice   *)
(* channel it joined the author's channel and checks is_connected() up to  *)
(* ConnectPolls times, sleeping half a second after every failed check.    *)
(***************************************************************************)
ConnectPolls == 20

Waiter(cmd, t, description, energy) ==
    [cmd |-> cmd, polls |-> 0, track |-> t, description |-> description,
     energy |-> energy]

\* the handshake of the voice connection completes
Connect ==
    /\ ~connected
    /\ connected' = TRUE
    /\ UNCHANGED <<sessionVars, loopVars, player, pending, synth, wispers,
                   reply, now, cmds, stopped, dropped>>
    /\ UNCHANGED extVars

PlayWait(t, in_voice) ==
    /\ ~connected
    /\ waiting = NoWait
    /\ Command("play", IF in_voice THEN "none" ELSE "error")
    /\ waiting' = IF in_voice THEN Waiter("play", t, "", 0) ELSE waiting
    /\ UNCHANGED <<sessionVars, loopVars, player, pending, synth, stopped>>
    /\ UNCHANGED <<track_start_time, states, connected, wispers, now, dropped,
                   elsewhere, probe, stations_file>>

AutoplayWait(in_voice) ==
    /\ ~connected
    /\ waiting = NoWait
    /\ Cardinality(FreeSlots) > BagCardinality(starting)
    /\ Command("autoplay", IF in_voice THEN "none" ELSE "error")
    /\ tasks' = cancel(tasks, autoplay_state)
    /\ autoplay_state' = None
    /\ FreshStart(tasks')
    /\ waiting' = IF in_voice THEN Waiter("autoplay", None, "artist", 0) ELSE waiting
    /\ stopped' = FALSE
    /\ UNCHANGED <<track_start_time, states, radio_state, starting, connected,
                   synth, wispers, now, dropped, elsewhere, probe, stations_file>>

RadioWait(description, in_voice) ==
    /\ ~connected
    /\ waiting = NoWait
    /\ Cardinality(FreeSlots) > BagCardinality(starting)
    /\ Command("radio", IF in_voice THEN "none" ELSE "error")
    /\ tasks' = stop_radio_and_autoplay(tasks)
    /\ autoplay_state' = None
    /\ radio_state' = None
    /\ FreshStart(tasks')
    /\ waiting' = IF in_voice THEN Waiter("radio", None, description, 0) ELSE waiting
    /\ stopped' = FALSE
    /\ UNCHANGED <<track_start_time, states, starting, connected, synth,
                   wispers, now, dropped, elsewhere, probe, stations_file>>

\* str(ctx.guild.id)
guild_key == "123456"

HasItem(items, k) == \E i \in DOMAIN items : items[i].k = k
GetItem(items, k) == items[CHOOSE i \in DOMAIN items : items[i].k = k].v

\* stations[guild_key] after `if guild_key not in stations: stations[guild_key] = {}`
GuildStations(stations) ==
    IF HasItem(stations.items, guild_key) THEN GetItem(stations.items, guild_key)
    ELSE PyDict(<<>>)

\* station save <name>: load_stations raised, or no radio is running, or the
\* description and the energy of the radio state are written to the file
station_save(name) ==
    LET r == load_stations(stations_file)
        mine == GuildStations(r.value)
        state == states[radio_state]
    IN
    /\ IF r.raised
       THEN Command("station", "none") /\ UNCHANGED stations_file
       ELSE IF radio_state = None
       THEN Command("station", "error") /\ UNCHANGED stations_file
       ELSE /\ Command("station", "ack")
            /\ stations_file' = save_stations(PyDict(SetItem(r.value.items, guild_key,
                    PyDict(SetItem(mine.items, name,
                                   Station(state.description, state.energy))))))
    /\ UNCHANGED <<sessionVars, loopVars, connected, player, pending, synth,
                   wispers, now, stopped, dropped, elsewhere, waiting, probe>>

\* station <name>: load_stations raised, or the station is not there, or
\* the command goes on as radio does with the description and the energy of
\* the file.  With a ready voice client the author's channel is not asked for.
StationWait(name, in_voice) ==
    LET r == load_stations(stations_file)
        found == ~r.raised /\ HasItem(GuildStations(r.value).items, name)
        data == GetItem(GuildStations(r.value).items, name)
        joined == connected \/ in_voice
    IN
    /\ waiting = NoWait
    /\ Cardinality(FreeSlots) > BagCardinality(starting)
    /\ Command("station", IF r.raised \/ (found /\ joined) THEN "none" ELSE "error")
    /\ IF found
       THEN /\ tasks' = stop_radio_and_autoplay(tasks)
            /\ autoplay_state' = None
            /\ radio_state' = None
            /\ FreshStart(tasks')
            /\ stopped' = FALSE
            /\ waiting' = IF joined
                          THEN Waiter("station", None,
                                      GetItem(data.items, "description").s,
                                      IF HasItem(data.items, "energy")
                                      THEN GetItem(data.items, "energy").n ELSE 0)
                          ELSE waiting
       ELSE UNCHANGED <<sessionVars, tasks, autoplay_state, radio_state, player,
                        pending, stopped, waiting>>
    /\ UNCHANGED <<track_start_time, states, starting, connected, synth,
                   wispers, now, dropped, elsewhere, probe, stations_file>>

\* what the command does after `break`; play appends the fetched track and
\* advances unless something is playing or paused
WaitGoesOn(fetched) ==
    IF waiting.cmd = "play"
    THEN IF ~fetched
         THEN /\ reply' = <<"play", "error">>
              /\ UNCHANGED <<queues, deques, current_track, now_playing, synth,
                             starting, stopped>>
         ELSE LET g == get_queue(queues, deques, tasks)
                  appended == [g.deques EXCEPT ![g.queues] = Append(@, waiting.track)]
              IN /\ IF is_playing(player) \/ is_paused(player)
                    THEN /\ reply' = <<"play", "ack">>
                         /\ queues' = g.queues
                         /\ deques' = appended
                         /\ UNCHANGED <<current_track, now_playing, synth>>
                    ELSE LET r == play_next_async(g.queues, appended, current_track,
                                                  now_playing, tasks)
                         IN /\ reply' = reply
                            /\ queues' = r.queues
                            /\ deques' = r.deques
                            /\ current_track' = r.current
                            /\ now_playing' = r.np
                            /\ synth' = IF r.popped = None THEN synth
                                        ELSE synth (+) One(r.popped)
                 /\ stopped' = FALSE
                 /\ starting' = starting
    ELSE /\ Cardinality(FreeSlots) > BagCardinality(starting)
         /\ starting' = starting (+) One([cmd |-> IF waiting.cmd = "autoplay"
                                                  THEN "autoplay" ELSE "radio",
                                          description |-> waiting.description,
                                          energy |-> waiting.energy])
         /\ UNCHANGED <<queues, deques, current_track, now_playing, synth,
                        reply, stopped>>

\* the loop that gives up although the connection is there goes on as if
\* it had seen it
WaitPollThrough(fetched) ==
    /\ waiting.cmd # "none"
    /\ IF waiting.polls < ConnectPolls /\ ~connected
       THEN /\ waiting' = [waiting EXCEPT !.polls = @ + 1]
            /\ UNCHANGED <<queues, deques, current_track, now_playing, synth,
                           starting, reply, stopped>>
       ELSE /\ waiting' = NoWait
            /\ WaitGoesOn(fetched)
    /\ UNCHANGED <<tasks, states, autoplay_state, radio_state, player, pending,
                   cmds>>
    /\ UNCHANGED <<track_start_time, states, connected, wispers, now, dropped,
                   elsewhere, probe, stations_file>>

\* one turn of `for _ in range(20)`, or what follows the loop
WaitPoll(fetched) ==
    /\ waiting.cmd # "none"
    /\ IF waiting.polls = ConnectPolls
       THEN \* `else` of the for loop: the error is sent and the command returns
            /\ waiting' = NoWait
            /\ reply' = <<waiting.cmd, "error">>
            /\ UNCHANGED <<queues, deques, current_track, now_playing, synth,
                           starting, stopped>>
       ELSE IF ~connected
       THEN /\ waiting' = [waiting EXCEPT !.polls = @ + 1]
            /\ UNCHANGED <<queues, deques, current_track, now_playing, synth,
                           starting, reply, stopped>>
       ELSE /\ waiting' = NoWait
            /\ WaitGoesOn(fetched)
    /\ UNCHANGED <<tasks, states, autoplay_state, radio_state, player, pending,
                   cmds>>
    /\ UNCHANGED <<track_start_time, states, connected, wispers, now, dropped,
                   elsewhere, probe, stations_file>>

(***************************************************************************)
(* The same commands and callbacks with the guild_id of a second guild:    *)
(* they index the same dicts of the cog with another key.  The second      *)
(* guild has its own voice client, which is busy or idle as it pleases.    *)
(***************************************************************************)
OtherQueue == IF elsewhere.queues = None THEN <<>> ELSE deques[elsewhere.queues]

\* get_queue(guild_id) of the second guild
OtherGetQueue ==
    IF elsewhere.queues # None THEN elsewhere.queues
    ELSE CHOOSE d \in DequeIds :
            /\ d \notin UsedDeques(queues, tasks)
            /\ \A e \in DequeIds : e \notin UsedDeques(queues, tasks) => d <= e

otherFrame == <<queues, current_track, track_start_time, now_playing, connected,
                player, pending, synth, wispers, tasks, states, autoplay_state,
                radio_state, starting, reply, now, stopped, dropped, waiting,
                probe, stations_file>>

\* The second guild plays one and the same video again and again.  A start
\* command of that guild makes the state dict MaxLoops + 1.
OtherGuild ==
    \* play: the track is appended, and popped again by play_next_async when
    \* that guild's voice client is idle
    \/ /\ cmds < MaxCmds
       /\ cmds' = cmds + 1
       /\ LET id == OtherGetQueue
              q == Append(IF elsewhere.queues = None THEN <<>> ELSE deques[id], 1)
          IN \/ /\ elsewhere' = [elsewhere EXCEPT !.queues = id]
                /\ deques' = [deques EXCEPT ![id] = q]
             \/ /\ elsewhere' = [elsewhere EXCEPT !.queues = id, !.current_track = Head(q)]
                /\ deques' = [deques EXCEPT ![id] = Tail(q)]
       /\ UNCHANGED otherFrame
    \* _start_track
    \/ /\ elsewhere.current_track # None
       /\ elsewhere.track_start_time # now
       /\ elsewhere' = [elsewhere EXCEPT !.track_start_time = now]
       /\ UNCHANGED <<deques, cmds, otherFrame>>
    \* play_next_async of the `after` callback
    \/ /\ elsewhere.current_track # None
       /\ LET id == OtherGetQueue
              q == IF elsewhere.queues = None THEN <<>> ELSE deques[id]
          IN IF q = <<>>
             THEN /\ elsewhere' = [elsewhere EXCEPT !.queues = id, !.current_track = None]
                  /\ deques' = [deques EXCEPT ![id] = <<>>]
             ELSE /\ elsewhere' = [elsewhere EXCEPT !.current_track = Head(q)]
                  /\ deques' = [deques EXCEPT ![id] = Tail(q)]
       /\ UNCHANGED <<cmds, otherFrame>>
    \* stop
    \/ /\ cmds < MaxCmds
       /\ cmds' = cmds + 1
       /\ elsewhere' = [elsewhere EXCEPT !.queues = None, !.current_track = None]
       /\ deques' = IF elsewhere.queues = None THEN deques
                    ELSE [deques EXCEPT ![elsewhere.queues] = <<>>]
       /\ UNCHANGED otherFrame
    \* radio, up to the installation of its state
    \/ /\ cmds < MaxCmds
       /\ cmds' = cmds + 1
       /\ elsewhere' = [elsewhere EXCEPT !.queues = None, !.current_track = None,
                                         !.autoplay_state = None,
                                         !.radio_state = MaxLoops + 1]
       /\ deques' = IF elsewhere.queues = None THEN deques
                    ELSE [deques EXCEPT ![elsewhere.queues] = <<>>]
       /\ UNCHANGED otherFrame
    \* stopradio
    \/ /\ elsewhere.radio_state # None
       /\ cmds < MaxCmds
       /\ cmds' = cmds + 1
       /\ elsewhere' = [elsewhere EXCEPT !.radio_state = None]
       /\ UNCHANGED <<deques, otherFrame>>

(***************************************************************************)
(* The system                                                              *)
(***************************************************************************)
Session ==
    \/ \E t \in TrackIds : AnnounceSynthOk(t)
    \/ \E t \in TrackIds : AnnounceSynthFail(t)
    \/ PlayerEnds
    \/ \E c \in BagToSet(pending) : RunPending(c)

Loops ==
    \/ \E c \in BagToSet(starting) : Install(c)
    \/ \E l \in LoopIds : Poll(l)
    \/ \E l \in LoopIds, ok \in BOOLEAN, found \in SUBSET TrackIds :
          (ok \/ found = {}) /\ Related(l, ok, found)
    \/ \E l \in LoopIds, ok \in BOOLEAN, found \in SUBSET TrackIds :
          (ok \/ found = {}) /\ Search1(l, ok, found)
    \/ \E l \in LoopIds, ok \in BOOLEAN, found \in SUBSET TrackIds :
          (ok \/ found = {}) /\ Search2(l, ok, found)
    \/ \E l \in LoopIds, s \in TrackIds, ok \in BOOLEAN : Resolve(l, s, ok)
    \/ \E l \in LoopIds : TaskSynthOk(l)
    \/ \E l \in LoopIds : TaskSynthFail(l)
    \/ \E l \in LoopIds : Finish(l)

Next ==
    \/ Session
    \/ Loops
    \/ \E t \in TrackIds : Play(t)
    \/ PlayFetchError
    \/ Pause
    \/ Resume
    \/ Skip
    \/ skip_button
    \/ Stop
    \/ Clear
    \/ Leave
    \/ Wisper
    \/ \E w \in BagToSet(wispers) : WisperSynthOk(w)
    \/ \E w \in BagToSet(wispers) : WisperSynthFail(w)
    \/ Autoplay
    \/ \E d \in Descriptions : Radio(d)
    \/ stop_autoplay
    \/ stop_radio
    \/ \E d \in Descriptions : tune(d)
    \/ \E d \in {"up", "down", "left"} : dial(d)
    \/ static
    \/ Tick
    \/ Disconnect

Spec == Init /\ [][Next]_vars

(***************************************************************************)
(* Sub-systems.  Every command of `Next` at every moment of two running    *)
(* tasks is more than can be enumerated, so the properties are checked on  *)
(* the part of the bot they are about.                                     *)
(***************************************************************************)

\* play, pause, resume, skip, stop, clear and the clock: no replenishment task
NextPlayback ==
    \/ Session
    \/ \E t \in TrackIds : Play(t)
    \/ PlayFetchError
    \/ Pause
    \/ Resume
    \/ Skip
    \/ skip_button
    \/ Stop
    \/ Clear
    \/ Tick

SpecPlayback == Init /\ [][NextPlayback]_vars

\* play, and wisper over a rendering track
NextWhisper ==
    \/ Session
    \/ \E t \in TrackIds : Play(t)
    \* a track is rendering and no earlier wisper is still under way
    \/ /\ player.kind = "track"
       /\ ~player.paused
       /\ wispers = EmptyBag
       /\ \A c \in BagToSet(pending) : c.co # "_resume_track"
       /\ Wisper
    \/ \E w \in BagToSet(wispers) : WisperSynthOk(w)
    \/ \E w \in BagToSet(wispers) : WisperSynthFail(w)
    \/ Tick

SpecWhisper == Init /\ [][NextWhisper]_vars

\* No autoplay or radio command was given yet
FirstStart == starting = EmptyBag /\ FreeSlots = LoopIds

\* One replenishment task from its start command to its end, with the
\* commands that stop it
NextLoop ==
    \/ Session
    \/ Loops
    \/ FirstStart /\ Autoplay
    \/ \E d \in Descriptions : FirstStart /\ Radio(d)
    \/ stop_autoplay
    \/ stop_radio
    \/ Stop

SpecLoop == Init /\ [][NextLoop]_vars

\* One replenishment task and the commands that cancel it
NextCancel ==
    \/ Session
    \/ Loops
    \/ FirstStart /\ Autoplay
    \/ \E d \in Descriptions : FirstStart /\ Radio(d)
    \/ stop_autoplay
    \/ stop_radio

SpecCancel == Init /\ [][NextCancel]_vars

\* Start commands at any moment, with a provider that finds nothing
NextStart ==
    \/ Session
    \/ \E t \in TrackIds : Play(t)
    \/ \E c \in BagToSet(starting) : Install(c)
    \/ \E l \in LoopIds : Poll(l)
    \/ \E l \in LoopIds, ok \in BOOLEAN : Related(l, ok, {})
    \/ \E l \in LoopIds, ok \in BOOLEAN : Search1(l, ok, {})
    \/ \E l \in LoopIds, ok \in BOOLEAN : Search2(l, ok, {})
    \/ \E l \in LoopIds : Finish(l)
    \/ Autoplay
    \/ \E d \in Descriptions : Radio(d)

SpecStart == Init /\ [][NextStart]_vars

\* What one provider call returns here: nothing, or one candidate
Singles == {{}} \cup {{t} : t \in TrackIds}

\* Two guilds: playback, stop and one autoplay task in this one, commands and
\* callbacks in the other
NextGuilds ==
    \/ Session
    \/ Stop
    \/ \E c \in BagToSet(starting) : Install(c)
    \/ \E l \in LoopIds : Poll(l)
    \/ \E l \in LoopIds, t \in TrackIds : Search1(l, TRUE, {t})
    \/ \E l \in LoopIds : Search2(l, TRUE, {})
    \/ \E l \in LoopIds, s \in TrackIds : Resolve(l, s, TRUE)
    \/ \E l \in LoopIds : TaskSynthOk(l)
    \/ \E l \in LoopIds : Finish(l)
    \/ FirstStart /\ Autoplay
    \/ OtherGuild

SpecGuilds == Init /\ [][NextGuilds]_vars

\* The voice connection drops and comes back while play, autoplay, radio and
\* station <name> arrive; the tasks they start are installed but not run any
\* further, and the track that play pops is not announced
NextWait ==
    \/ Disconnect
    \/ Connect
    \/ \E t \in TrackIds, in_voice \in BOOLEAN : PlayWait(t, in_voice)
    \/ \E in_voice \in BOOLEAN : AutoplayWait(in_voice)
    \/ \E d \in Descriptions, in_voice \in BOOLEAN : RadioWait(d, in_voice)
    \/ \E name \in {"chill", "hype"}, in_voice \in BOOLEAN :
          ~connected /\ StationWait(name, in_voice)
    \/ \E fetched \in BOOLEAN : WaitPoll(fetched)
    \/ \E c \in BagToSet(starting) : Install(c)

\* An earlier run has saved the station "chill" for this guild
SpecWait ==
    /\ LET saved == PyDict(<<Item(guild_key,
                            PyDict(<<Item("chill", Station("jazz", -1))>>))>>)
       IN /\ Constructed
          /\ probe = [fn |-> "none"]
          /\ stations_file = save_stations(saved)
    /\ [][NextWait]_vars


\* One radio task whose provider returns every video it knows, and wisper
NextIdle ==
    \/ Session
    \/ \E c \in BagToSet(starting) : Install(c)
    \/ \E l \in LoopIds : Poll(l)
    \/ \E l \in LoopIds : Related(l, TRUE, TrackIds)
    \/ \E l \in LoopIds : Search1(l, TRUE, TrackIds)
    \/ \E l \in LoopIds : Search2(l, TRUE, TrackIds)
    \/ \E l \in LoopIds, s \in TrackIds : Resolve(l, s, TRUE)
    \/ \E l \in LoopIds : TaskSynthOk(l)
    \/ \E l \in LoopIds : Finish(l)
    \/ FirstStart /\ Radio("jazz")
    \/ Wisper
    \/ \E w \in BagToSet(wispers) : WisperSynthOk(w)

\* The event loop runs every coroutine that is ready: a sleep returns, the
\* provider and the synthesis answer, a player comes to its end.  Nothing
\* makes a user give a command.
SpecIdle ==
    /\ Init
    /\ [][NextIdle]_vars
    /\ WF_vars(Session)
    /\ WF_vars(\/ \E c \in BagToSet(starting) : Install(c)
               \/ \E l \in LoopIds : Poll(l)
               \/ \E l \in LoopIds : Related(l, TRUE, TrackIds)
               \/ \E l \in LoopIds : Search1(l, TRUE, TrackIds)
               \/ \E l \in LoopIds : Search2(l, TRUE, TrackIds)
               \/ \E l \in LoopIds, s \in TrackIds : Resolve(l, s, TRUE)
               \/ \E l \in LoopIds : TaskSynthOk(l)
               \/ \E l \in LoopIds : Finish(l))
    /\ WF_vars(\E w \in BagToSet(wispers) : WisperSynthOk(w))

\* One radio task whose provider returns every video it knows, with play
\* and static
NextStatic ==
    \/ Session
    \/ \E c \in BagToSet(starting) : Install(c)
    \/ \E l \in LoopIds : Poll(l)
    \/ \E l \in LoopIds : Related(l, TRUE, TrackIds)
    \/ \E l \in LoopIds : Search1(l, TRUE, TrackIds)
    \/ \E l \in LoopIds : Search2(l, TRUE, TrackIds)
    \/ \E l \in LoopIds, s \in TrackIds : Resolve(l, s, TRUE)
    \/ \E l \in LoopIds : TaskSynthOk(l)
    \/ \E l \in LoopIds : Finish(l)
    \/ FirstStart /\ Radio("jazz")
    \/ \E t \in TrackIds : Play(t)
    \/ static

SpecStatic == Init /\ [][NextStatic]_vars

\* The steps of a replenishment task, with a provider that returns at most
\* one candidate per call
TaskSteps ==
    \/ \E l \in LoopIds : Poll(l)
    \/ \E l \in LoopIds, ok \in BOOLEAN, found \in Singles :
          (ok \/ found = {}) /\ Related(l, ok, found)
    \/ \E l \in LoopIds, ok \in BOOLEAN, found \in Singles :
          (ok \/ found = {}) /\ Search1(l, ok, found)
    \/ \E l \in LoopIds, ok \in BOOLEAN, found \in Singles :
          (ok \/ found = {}) /\ Search2(l, ok, found)
    \/ \E l \in LoopIds, s \in TrackIds, ok \in BOOLEAN : Resolve(l, s, ok)
    \/ \E l \in LoopIds : TaskSynthOk(l)
    \/ \E l \in LoopIds : TaskSynthFail(l)
    \/ \E l \in LoopIds : Finish(l)

LoopsSingle ==
    \/ \E c \in BagToSet(starting) : Install(c)
    \/ TaskSteps

\* One replenishment task and the clock, up to the end of its two hours
NextBudget ==
    \/ Session
    \/ LoopsSingle
    \/ FirstStart /\ Autoplay
    \/ FirstStart /\ Radio("jazz")
    \/ Tick

SpecBudget == Init /\ [][NextBudget]_vars

\* One autoplay task from its start to its end, and stopautoplay
NextAutoplay ==
    \/ Session
    \/ \E c \in BagToSet(starting) : Install(c)
    \/ \E l \in LoopIds : Poll(l)
    \/ \E l \in LoopIds, ok \in BOOLEAN, found \in Singles :
          (ok \/ found = {}) /\ Search1(l, ok, found)
    \/ \E l \in LoopIds, ok \in BOOLEAN, found \in Singles :
          (ok \/ found = {}) /\ Search2(l, ok, found)
    \/ \E l \in LoopIds, s \in TrackIds, ok \in BOOLEAN : Resolve(l, s, ok)
    \/ \E l \in LoopIds : TaskSynthOk(l)
    \/ \E l \in LoopIds : TaskSynthFail(l)
    \/ \E l \in LoopIds : Finish(l)
    \/ FirstStart /\ Autoplay
    \/ stop_autoplay

SpecAutoplay == Init /\ [][NextAutoplay]_vars

\* One radio task with everything that can end it: the clock, the loss of
\* the voice connection, stopradio
NextRadio ==
    \/ Session
    \/ LoopsSingle
    \/ FirstStart /\ Radio("jazz")
    \/ stop_radio
    \/ Tick
    \/ Disconnect

SpecRadio == Init /\ [][NextRadio]_vars

\* One radio task and the commands that steer it
NextTune ==
    \/ Session
    \/ LoopsSingle
    \/ FirstStart /\ Radio("jazz")
    \/ \E d \in Descriptions : tune(d)
    \/ static

SpecTune == Init /\ [][NextTune]_vars

\* The session once `radio jazz` has installed its state and created its
\* task, and dial has brought the energy to any of its five levels
RadioOnAir ==
    /\ queues = None
    /\ deques = [d \in DequeIds |-> <<>>]
    /\ current_track = None
    /\ track_start_time = -1
    /\ now_playing = None
    /\ connected = TRUE
    /\ player = NoPlayer
    /\ pending = EmptyBag
    /\ synth = EmptyBag
    /\ wispers = EmptyBag
    /\ tasks = [l \in LoopIds |->
                  IF l = 1 THEN [NoTask EXCEPT !.kind = "radio", !.pc = "start"]
                  ELSE NoTask]
    /\ \E e \in -2..2 :
          states = [l \in LoopIds |->
                      IF l = 1 THEN [NoState EXCEPT !.description = "jazz", !.energy = e]
                      ELSE NoState]
    /\ autoplay_state = None
    /\ radio_state = 1
    /\ starting = EmptyBag
    /\ reply = <<"radio", "none">>
    /\ now = 0
    /\ cmds = 0
    /\ stopped = FALSE
    /\ dropped = {}
    /\ elsewhere = NoGuild
    /\ waiting = NoWait
    /\ probe = [fn |-> "none"]
    /\ stations_file = NoFile

\* The radio task and dial
NextDial ==
    \/ Session
    \/ TaskSteps
    \/ \E d \in {"up", "down", "left"} : dial(d)

SpecDial == RadioOnAir /\ [][NextDial]_vars

\* Start commands one after the other, each one given once the one before
\* has installed its state, and stopautoplay; the provider knows one
\* video, which the first search returns
NextRestart ==
    \/ Session
    \/ \E c \in BagToSet(starting) : Install(c)
    \/ \E l \in LoopIds : Poll(l)
    \/ \E l \in LoopIds : Search1(l, TRUE, {1})
    \/ \E l \in LoopIds : Search2(l, TRUE, {})
    \/ \E l \in LoopIds : Resolve(l, 1, TRUE)
    \/ \E l \in LoopIds : TaskSynthOk(l)
    \/ \E l \in LoopIds : Finish(l)
    \/ starting = EmptyBag /\ Autoplay
    \/ stop_autoplay

SpecRestart == Init /\ [][NextRestart]_vars

\* One replenishment task of either kind and the loss of the voice
\* connection
NextLost ==
    \/ Session
    \/ LoopsSingle
    \/ FirstStart /\ Autoplay
    \/ FirstStart /\ Radio("jazz")
    \/ Disconnect

SpecLost == Init /\ [][NextLost]_vars

\* One replenishment task of either kind whose provider answers with a long
\* result list; the candidates of a pass are resolved in the order of their
\* ids, and all of them resolve
NextRefill ==
    \/ PlayerEnds
    \/ \E c \in BagToSet(pending) : RunPending(c)
    \/ \E t \in 1..NVideos : AnnounceSynthOk(t)
    \/ \E c \in BagToSet(starting) : Install(c)
    \/ \E l \in LoopIds : Poll(l)
    \/ \E l \in LoopIds : Related(l, FALSE, {})
    \/ \E l \in LoopIds, found \in {1..(AutoplayBatch + 1), 1..NVideos} :
          Search1(l, TRUE, found)
    \/ \E l \in LoopIds : Search2(l, TRUE, {})
    \/ \E l \in LoopIds : \E s \in tasks[l].batch :
          (\A m \in tasks[l].batch : s <= m) /\ Resolve(l, s, TRUE)
    \/ \E l \in LoopIds : TaskSynthOk(l)
    \/ \E l \in LoopIds : Finish(l)
    \/ FirstStart /\ Autoplay
    \/ FirstStart /\ Radio("jazz")

SpecRefill == Init /\ [][NextRefill]_vars

\* play, and the clock: the tracks asked for are video 1, 2, ... in the
\* order of the commands, so that track k is appended once cmds >= k and a
\* track appended earlier has the lower id
NextFifo ==
    \/ Session
    \/ Play(cmds + 1)
    \/ Tick

SpecFifo == Init /\ [][NextFifo]_vars

\* A running radio, dial, and the stations: one is saved and loaded
NextPresets ==
    \/ \E d \in {"up", "down"} : dial(d)
    \/ \E name \in {"chill", "hype"} : station_save(name)
    \/ \E name \in {"chill", "hype"} : connected /\ StationWait(name, TRUE)
    \/ WaitPoll(TRUE)
    \/ \E c \in BagToSet(starting) : Install(c)

SpecPresets == RadioOnAir /\ [][NextPresets]_vars

(***************************************************************************)
(* Properties                                                              *)
(***************************************************************************)
\* A step in which the named command was issued
CommandStep(name) == cmds' = cmds + 1 /\ reply'[1] = name

\* C1: at most one replenishment task (autoplay or radio) is alive at any
\* time, because every start command first cancels the tasks of both kinds.
C1_AtMostOneLoop == Cardinality({l \in LoopIds : Alive(tasks[l])}) <= 1

\* C2: whatever the interleaving of a replenishment task with the advance
\* of the `after` callback, a track taken off the queue by an advance is
\* rendered: none is lost on the way to the voice client.
C2_NoTrackLost == dropped = {}

\* C3: a play command that arrives while the advance of an earlier play is
\* still synthesizing its announcement (nothing rendering yet) starts no
\* second advance: its track is appended and stays in the queue.
C3_OneAdvancePerIdle ==
    [][(/\ CommandStep("play")
        /\ reply'[2] # "error"
        /\ player = NoPlayer
        /\ pending = EmptyBag
        /\ synth # EmptyBag)
       => /\ synth' = synth
          /\ current_track' = current_track
          /\ Len(TheQueue') = Len(TheQueue) + 1]_vars

\* C4: stop cancels the replenishment tasks: once it has completed, and until
\* a later start, no autoplay or radio task is alive, so that none appends
\* a track or triggers playback.
C4_StopCancelsLoops == stopped => (\A l \in LoopIds : ~Alive(tasks[l]))

\* C5: after stop has completed, and until a later enqueue or start, the
\* session is idle: empty queue, no current track, nothing rendering.
C5_IdleAfterStop ==
    stopped => /\ TheQueue = <<>>
               /\ current_track = None
               /\ player = NoPlayer

\* C6: a cancelled task takes no further step: it appends nothing to a
\* queue and adds nothing to its played keys, whatever await it was
\* suspended at (a candidate's resolution included).
C6_CancelledLoopIsSilent ==
    [][\A l \in LoopIds :
          tasks[l].cancelled # "no"
          => /\ tasks'[l] = tasks[l]
             /\ states'[l].played = states[l].played
             /\ states'[l].appended = states[l].appended]_vars

\* A task was cancelled while get_full_track_info of a candidate was pending
C6_CancelledWhileResolving ==
    \E l \in LoopIds : /\ tasks[l].cancelled = "resolve"
                       /\ ~Alive(tasks[l])
                       /\ states[l].played # {}

\* C7: a replenishment task never appends a track whose normalized key is
\* already among its played keys.
C7_NoPlayedKeyAppended ==
    [][\A l \in LoopIds :
          \A s \in states'[l].appended \ states[l].appended :
              Key(s) \notin states[l].played]_vars

\* C8: skip acts only while a track is rendering: it stops the render and
\* leaves the advance to the `after` callback; in every other state it
\* answers with an error and changes nothing.
C8_SkipOnlyWhenPlaying ==
    [][CommandStep("skip")
       => IF player.kind = "track" /\ ~player.paused
          THEN /\ reply'[2] = "ack"
               /\ player' = NoPlayer
               /\ pending' = pending (+) One([co |-> "play_next_async",
                                             track |-> None, seek |-> 0])
               /\ UNCHANGED <<sessionVars, synth>>
          ELSE /\ reply'[2] = "error"
               /\ UNCHANGED <<sessionVars, synth, player, pending>>]_vars

\* C9: a wisper given while a track renders interrupts that track, and once
\* the whispered message has finished _resume_track renders the same track
\* again from the recorded position, with the ordinary advance as its
\* `after` callback.
C9_WhisperResumesTrack ==
    [][/\ \A w \in BagToSet(wispers) :
            (/\ CopiesIn(w, wispers') < CopiesIn(w, wispers)
             /\ player'.kind = "tts"
             /\ is_playing(player))
            => player.kind = "track" /\ player.track = w.current
       /\ \A c \in BagToSet(pending) :
            (/\ c.co = "_resume_track"
             /\ CopiesIn(c, pending') < CopiesIn(c, pending)
             /\ connected
             /\ player.kind # "tts")
            => /\ player' = TrackPlayer(c.track, c.seek)
               /\ current_track' = c.track
               /\ AfterOf(player') = One([co |-> "play_next_async",
                                          track |-> None, seek |-> 0])]_vars

\* C10: when the synthesis of the announcement fails, the popped track is
\* rendered all the same: it is the current track, its start time is
\* stamped, its render starts and the now-playing message shows it.
C10_SynthFailureStillRenders ==
    [][\A t \in TrackIds :
          AnnounceSynthFail(t)
          => /\ player' = TrackPlayer(t, 0)
             /\ current_track' = t
             /\ track_start_time' = now
             /\ now_playing' = t]_vars

\* C11: an exception raised by a candidate-fetch call of a replenishment
\* task (related-items lookup, primary search, fallback search) never ends
\* the task.
C11_FetchErrorNeverEndsLoop ==
    [][\A l \in LoopIds :
          (\/ Related(l, FALSE, {})
           \/ Search1(l, FALSE, {})
           \/ Search2(l, FALSE, {}))
          => tasks'[l].pc \notin {"ending", "done"}]_vars

\* C12: a radio task does not end on exhaustion: when the fallback search
\* leaves it without a new candidate it sends the running-low notice and
\* sleeps; and a running radio task ends only on the expiry of its two
\* hours, on the loss of the voice connection or on its cancellation.
C12_RadioEndsOnlyOnBudgetDisconnectCancel ==
    [][\A l \in LoopIds :
          (/\ tasks[l].kind = "radio"
           /\ tasks[l].pc \notin {"ending", "done"}
           /\ tasks'[l].cancelled = "no")
          => /\ (tasks[l].pc = "search2" /\ tasks'[l].pc \notin {"search2", "resolve"})
                => /\ tasks'[l].pc = "poll"
                   /\ tasks'[l].notice = "running low"
             /\ tasks'[l].pc \in {"ending", "done"}
                => \/ tasks'[l].notice = "summary"
                   \/ ~connected]_vars

\* C13: an autoplay task goes on from its fallback search only with a batch
\* of candidates whose keys are unplayed; when the primary and the fallback
\* search both left it without one it sends one notice ("Ran out of new
\* songs"), appends nothing, ends, and its end removes the autoplay state.
C13_AutoplayEndsWhenExhausted ==
    [][\A l \in LoopIds :
          /\ (/\ tasks[l].kind = "autoplay"
              /\ tasks[l].pc = "search2"
              /\ tasks'[l] # tasks[l]
              /\ tasks'[l].cancelled = "no")
             => \/ /\ tasks'[l].pc = "resolve"
                   /\ tasks'[l].batch # {}
                   /\ \A s \in tasks'[l].batch : Key(s) \notin states[l].played
                \/ /\ tasks'[l].pc = "ending"
                   /\ tasks'[l].notice = "ran out"
                   /\ states' = states
                   /\ \A d \in DequeIds : Len(deques'[d]) <= Len(deques[d])
          /\ (/\ tasks[l].pc = "ending"
              /\ tasks[l].notice = "ran out"
              /\ tasks'[l] # tasks[l]
              /\ tasks'[l].cancelled = "no")
             => /\ tasks'[l].pc = "done"
                /\ tasks'[l].notice = "ran out"
                /\ autoplay_state' = None]_vars

\* An autoplay task appended songs, later found nothing new and ended
C13_AutoplayRanOut ==
    \E l \in LoopIds : /\ tasks[l].kind = "autoplay"
                       /\ tasks[l].pc = "done"
                       /\ tasks[l].notice = "ran out"
                       /\ tasks[l].cancelled = "no"
                       /\ states[l].appended # {}
                       /\ autoplay_state = None

\* C14: a replenishment task (autoplay or radio) whose state is at least
\* AUTOPLAY_DURATION seconds old ends at its next check at the top of the
\* loop: that step calls no provider and appends nothing, the task sends the
\* summary notice, once, and its end removes the state of its kind.
C14_BudgetExpiryEndsLoop ==
    [][\A l \in LoopIds :
          /\ (/\ tasks[l].pc \in {"start", "poll"}
              /\ Registry(tasks[l].kind) = l
              /\ now - states[l].start_time >= AUTOPLAY_DURATION
              /\ Poll(l))
             => /\ tasks'[l].pc = "ending"
                /\ tasks'[l].notice = "summary"
                /\ UNCHANGED <<queues, deques, states, current_track, player>>
          /\ (/\ tasks[l].pc = "ending"
              /\ tasks[l].notice = "summary"
              /\ tasks'[l] # tasks[l]
              /\ tasks'[l].cancelled = "no")
             => /\ tasks'[l].pc = "done"
                /\ tasks'[l].notice = "summary"
                /\ IF tasks[l].kind = "autoplay"
                   THEN autoplay_state' = None
                   ELSE radio_state' = None]_vars

\* A task that had appended songs ended with the summary notice, two hours
\* after its start, and its state is gone
C14_EndedAfterTwoHours ==
    \E l \in LoopIds : /\ tasks[l].pc = "done"
                       /\ tasks[l].notice = "summary"
                       /\ tasks[l].cancelled = "no"
                       /\ states[l].appended # {}
                       /\ now - states[l].start_time >= AUTOPLAY_DURATION
                       /\ Registry(tasks[l].kind) = None

\* C15: with radio running and a current track, static adds the key of the
\* current track to the avoided keys and skips the track: whatever was
\* rendering is stopped, the `after` callback schedules the advance to the
\* next queued track, and nothing is left that renders the avoided track.
C15_StaticSkipsCurrent ==
    [][(/\ static
        /\ radio_state # None
        /\ current_track # None)
       => /\ reply'[2] = "ack"
          /\ Key(current_track) \in states'[radio_state].avoided
          /\ player' = NoPlayer
          /\ ~BagIn(current_track, synth')
          /\ \A c \in BagToSet(pending') : c.track # current_track]_vars

\* C16: with radio running, tune replaces the description by the new one and
\* empties the queue in the same step, and changes neither the played keys,
\* the avoided keys, the energy, the current track, what is rendering, nor
\* the radio task.
C16_TuneSwapsDescriptionAndClears ==
    [][\A d \in Descriptions :
          (tune(d) /\ radio_state # None)
          => /\ reply'[2] = "ack"
             /\ states'[radio_state].description = d
             /\ TheQueue' = <<>>
             /\ states'[radio_state].played = states[radio_state].played
             /\ states'[radio_state].avoided = states[radio_state].avoided
             /\ states'[radio_state].energy = states[radio_state].energy
             /\ UNCHANGED <<current_track, player, tasks, radio_state>>]_vars

\* The radio was retuned from jazz to rock while a track it had appended was
\* rendering
C16_Retuned ==
    /\ reply = <<"tune", "ack">>
    /\ radio_state # None
    /\ states[radio_state].description = "rock"
    /\ states[radio_state].played # {}
    /\ TheQueue = <<>>
    /\ current_track # None
    /\ player.kind = "track"

\* C17: with radio running, dial up sets the energy to min(2, energy + 1)
\* and dial down to max(-2, energy - 1), and both empty the queue: from 0 up
\* gives 1, up at 2 stays at 2, down at -2 stays at -2, and the energy never
\* leaves -2..2.
C17_DialClampsEnergy ==
    [][\A l \in LoopIds :
          /\ states'[l].energy \in -2..2
          /\ (radio_state = l /\ dial("up"))
             => /\ states'[l].energy = IF states[l].energy >= 2 THEN 2
                                       ELSE states[l].energy + 1
                /\ TheQueue' = <<>>
          /\ (radio_state = l /\ dial("down"))
             => /\ states'[l].energy = IF states[l].energy <= -2 THEN -2
                                       ELSE states[l].energy - 1
                /\ TheQueue' = <<>>]_vars

\* After three dial commands the energy of a radio that has found songs is
\* at the lower end
C17_DialedDownToTheEnd ==
    /\ reply = <<"dial", "ack">>
    /\ cmds = 3
    /\ radio_state # None
    /\ states[radio_state].energy = -2
    /\ states[radio_state].played # {}

\* C18: pause succeeds only while a track is rendering and leaves it paused;
\* resume succeeds only while a track is paused and lets it render again; in
\* every other state each answers with an error and changes neither what the
\* voice client holds, the queue nor the current track.
C18_PauseResumeOnlyOnTrack ==
    [][/\ CommandStep("pause")
          => IF player.kind = "track" /\ ~player.paused
             THEN /\ reply'[2] = "ack"
                  /\ player' = [player EXCEPT !.paused = TRUE]
                  /\ UNCHANGED <<sessionVars, pending, synth>>
             ELSE /\ reply'[2] = "error"
                  /\ UNCHANGED <<sessionVars, player, pending, synth>>
       /\ CommandStep("resume")
          => IF player.kind = "track" /\ player.paused
             THEN /\ reply'[2] = "ack"
                  /\ player' = [player EXCEPT !.paused = FALSE]
                  /\ UNCHANGED <<sessionVars, pending, synth>>
             ELSE /\ reply'[2] = "error"
                  /\ UNCHANGED <<sessionVars, player, pending, synth>>]_vars

\* C19: play_next_async run on a connected session whose queue is empty
\* leaves the session idle: no current track, the now-playing message
\* cleared, and nothing rendering or on its way to the voice client.
C19_AdvanceOnEmptyQueueIsIdle ==
    [][\A c \in BagToSet(pending) :
          (/\ c.co = "play_next_async"
           /\ CopiesIn(c, pending') < CopiesIn(c, pending)
           /\ connected
           /\ TheQueue = <<>>)
          => /\ current_track' = None
             /\ now_playing' = None
             /\ UNCHANGED <<player, synth>>
             /\ player' = NoPlayer
             /\ synth' = EmptyBag
             /\ pending' = EmptyBag]_vars

\* C20: in every reachable state the track that is rendering is the current
\* track (there is one current track and no other is rendered beside it),
\* and the current track is not in the queue.
C20_OneCurrentTrackNotQueued ==
    /\ player.kind = "track" => player.track = current_track
    /\ current_track # None
       => \A i \in 1..Len(TheQueue) : TheQueue[i] # current_track

\* C21: the per-guild dicts keep the guilds apart: a command or callback of
\* the second guild changes neither the queue, the current track, the start
\* time nor the autoplay/radio state of this guild, and a command, callback
\* or task of this guild changes none of those of the second guild.
C21_GuildsAreApart ==
    [][IF OtherGuild
       THEN UNCHANGED <<queues, TheQueue, current_track, track_start_time,
                        autoplay_state, radio_state, states>>
       ELSE UNCHANGED <<elsewhere, OtherQueue>>]_vars

\* Both guilds have a queue and a current track, and a track waits in the
\* queue of the second
C21_BothGuildsBusy ==
    /\ current_track # None
    /\ queues # None
    /\ elsewhere.current_track # None
    /\ OtherQueue # <<>>
    /\ queues # elsewhere.queues

\* C22: the readiness wait checks is_connected() at most ConnectPolls times:
\* every step of a waiting command is one more failed check or its last, and
\* after ConnectPolls failed checks its only step is the last.  A command
\* that leaves the wait while the voice client is not connected had made all
\* its checks, answers with an error and changes neither the queue, the
\* current track, the pending announcements, the commands about to install a
\* state, the tasks nor the autoplay and radio states.
C22_WaitIsBoundedAndFailsClean ==
    [][/\ waiting'.polls <= ConnectPolls
       /\ (waiting.cmd # "none" /\ waiting' # waiting) =>
              \/ waiting' = [waiting EXCEPT !.polls = @ + 1] /\ ~connected
              \/ waiting' = NoWait
       /\ (waiting.polls = ConnectPolls /\ waiting' # waiting) => waiting' = NoWait
       /\ (waiting.cmd # "none" /\ waiting' = NoWait /\ ~connected) =>
              /\ waiting.polls = ConnectPolls
              /\ reply' = <<waiting.cmd, "error">>
              /\ UNCHANGED <<queues, deques, current_track, now_playing, synth,
                             starting, tasks, states, autoplay_state,
                             radio_state>>]_vars

\* A station load has made all its checks and the voice client is still
\* not connected
C22_StationWaitedInVain ==
    /\ waiting.cmd = "station"
    /\ waiting.polls = ConnectPolls
    /\ ~connected

\* C23: a title that is a base followed by decorations (official video or
\* audio, lyrics, HD, HQ, 4K, a pipe-separated suffix, "- Topic"), whichever
\* they are and in whatever order, has the normalized title of the base alone.
C23_DecorationsLeaveTheKey ==
    probe.fn = "normalize_title" => probe.key = probe.base_key

C25_TenMinutesAccepted ==
    (probe.fn = "is_likely_song" /\ ~probe.non_song) =>
        /\ probe.duration \in {90, 600} => probe.result
        /\ probe.duration \in {89, 601} => ~probe.result

\* C26: load_stations never fails; after one or more calls of save_stations
\* it returns the data of the last of them, and with no call of save_stations
\* it returns an empty dict when the file is missing or holds no valid JSON.
C26_LoadReturnsLastSave ==
    probe.fn = "load_stations" =>
        /\ ~probe.raised
        /\ probe.saves > 0 => probe.loaded = probe.saved
        /\ (probe.saves = 0 /\ probe.found \in {"missing", "invalid"}) =>
               probe.loaded = PyDict(<<>>)

\* C27: whenever the voice client renders a track (playing or paused), that
\* track is the current track of the session: no track is rendered while
\* current_track is unset or names another track.
C27_RenderedTrackIsCurrent ==
    player.kind = "track" => (current_track # None /\ player.track = current_track)

\* C28: whenever a task is alive, the voice client is connected, nothing is
\* playing or paused, no advance is under way and the queue is not empty,
\* an advance begins later on: the task's poll starts it, however many tracks
\* the queue holds.
C28_IdleQueueGetsAdvanced ==
    (/\ \E l \in LoopIds : tasks[l].pc \notin {"done", "ending"}
     /\ connected
     /\ player.kind = "none"
     /\ synth = EmptyBag /\ pending = EmptyBag /\ wispers = EmptyBag
     /\ \A l \in LoopIds : tasks[l].pc # "announce"
     /\ TheQueue # <<>>)
    ~> (\/ synth # EmptyBag
        \/ \E l \in LoopIds : tasks[l].pc = "announce"
        \/ player.kind \in {"announce", "track"})

\* C29: a wisper leaves the queue alone: while its speech is rendered, no
\* step other than a command changes the queue, so no queued track is
\* popped, announced or dropped because of the interruption.
C29_WisperKeepsTheQueue ==
    [][(player.kind = "tts" /\ cmds' = cmds) => TheQueue' = TheQueue]_vars

\* C30: a radio task never appends a track whose normalized title is in
\* avoided_titles when it is appended, a title that static added while the
\* task was resolving its batch included.
C30_AvoidedNeverAppended ==
    [][\A l \in LoopIds, s \in TrackIds :
          (/\ tasks[l].kind = "radio"
           /\ tasks[l].pc = "resolve"
           /\ s \in tasks[l].batch
           /\ s \notin tasks'[l].batch
           /\ s \in states'[tasks[l].state].appended
           /\ s \notin states[tasks[l].state].appended)
          => Key(s) \notin states[tasks[l].state].avoided]_vars

\* C31: stopautoplay and stopradio change only the task and the state of
\* its kind: the queue, the current track and what the voice client renders
\* stay as they are, and a track that the task's own advance had popped and
\* was about to announce is still on its way to the voice client afterwards.
C31_StopLoopKeepsPlayback ==
    [][(CommandStep("stopautoplay") \/ CommandStep("stopradio"))
       => /\ UNCHANGED <<TheQueue, current_track, player, pending, synth>>
          /\ \A l \in LoopIds :
                tasks[l].pc = "announce"
                => \/ tasks'[l].pc = "announce" /\ tasks'[l].track = tasks[l].track
                   \/ BagIn(tasks[l].track, synth')]_vars

C32_IdleAfterDisconnect ==
    ~connected
    => /\ player = NoPlayer
       /\ (pending = EmptyBag /\ synth = EmptyBag /\ (\A l \in LoopIds : ~Alive(tasks[l])))
          => current_track = None

\* C34: once tune has changed the description and cleared the queue, a
\* track the radio task appends comes from candidates it asked the provider
\* for after the tune, under the description the session now has.
C34_AppendsFollowTheTune ==
    [][\A l \in LoopIds :
          (/\ tasks[l].kind = "radio"
           /\ tasks[l].pc = "resolve"
           /\ states'[tasks[l].state].appended # states[tasks[l].state].appended)
          => tasks[l].query = states[tasks[l].state].description]_vars

\* C35: a replenishment task that finds the voice connection gone at the
\* check at the top of its loop, its two hours not yet over, ends in that
\* step: it sends no notice, calls no provider, appends nothing, and the
\* state of its kind is removed.
C35_LostConnectionEndsLoopSilently ==
    [][\A l \in LoopIds :
          (/\ tasks[l].pc \in {"start", "poll"}
           /\ Registry(tasks[l].kind) = l
           /\ ~connected
           /\ now - states[l].start_time < AUTOPLAY_DURATION
           /\ tasks'[l] # tasks[l])
          => /\ tasks'[l].pc = "done"
             /\ tasks'[l].cancelled = "no"
             /\ tasks'[l].notice = tasks[l].notice
             /\ UNCHANGED <<queues, deques, states, current_track, player>>
             /\ Registry(tasks[l].kind)' = None]_vars

\* A task that had appended songs ended without a notice once the
\* connection was lost, and its state is gone
C35_EndedOnLostConnection ==
    \E l \in LoopIds : /\ tasks[l].pc = "done"
                       /\ tasks[l].cancelled = "no"
                       /\ tasks[l].notice = "none"
                       /\ states[l].appended # {}
                       /\ ~connected
                       /\ Registry(tasks[l].kind) = None

\* C36: a replenishment task asks the provider for candidates only when
\* the check at the top of its loop finds fewer than 3 tracks queued; with
\* 3 or more that step calls no provider and appends nothing.  In one pass
\* over its candidates the task appends at most 5 tracks, so that the queue
\* holds at most 7 tracks at the end of a pass when nobody else appended.
C36_RefillBelowThreeByFive ==
    [][\A l \in LoopIds :
          /\ (/\ tasks[l].pc \in {"start", "poll"}
              /\ tasks'[l] # tasks[l]
              /\ Len(TheQueue) >= 3)
             => /\ tasks'[l].pc \notin {"related", "search1", "search2", "resolve"}
                /\ TheQueue' = TheQueue
                /\ states' = states
          /\ (/\ tasks[l].pc = "resolve"
              /\ states'[l].appended # states[l].appended)
             => tasks[l].added < 5
          /\ (/\ tasks[l].pc = "resolve"
              /\ tasks'[l].pc \in {"poll", "announce"})
             => /\ tasks'[l].added = 0
                /\ Len(TheQueue') <= 7]_vars

\* A task sleeps on a queue of three tracks or more: it appended five of
\* the candidates of its pass and left the others
C36_FiveAppendedOfMore ==
    \E l \in LoopIds : /\ tasks[l].pc = "poll"
                       /\ tasks[l].cancelled = "no"
                       /\ Cardinality(states[l].appended) = 5
                       /\ Len(TheQueue) >= 3

\* C37: a candidate of a radio task that resolves and fails is_likely_song
\* (the candidates of a pass resolve in the order of their ids)
\* is not appended and does not count as one of the 5 accepted tracks of
\* the pass, but its normalized title goes to played_titles; and no pass of
\* the session takes a candidate whose normalized title is in played_titles.
C37_NonSongDroppedAndRemembered ==
    [][\A l \in LoopIds :
          /\ \A s \in 1..NVideos :
                (/\ tasks[l].kind = "radio"
                 /\ tasks[l].pc = "resolve"
                 /\ s \in tasks[l].batch
                 /\ \A m \in tasks[l].batch : s <= m
                 /\ tasks'[l] # tasks[l]
                 /\ ~LikelySong[s])
                => /\ states'[l].appended = states[l].appended
                   /\ Len(TheQueue') <= Len(TheQueue)
                   /\ tasks'[l].added = tasks[l].added \/ tasks'[l].pc # "resolve"
                   /\ NormalizedTitle[s] \in {NormalizedTitle[k] : k \in states'[l].played}
          /\ (/\ tasks[l].kind = "radio"
              /\ tasks[l].pc # "resolve"
              /\ tasks'[l].pc = "resolve")
             => \A s \in tasks'[l].batch : Key(s) \notin states[l].played]_vars

\* A radio task is asleep after a later pass: it resolved a video that is no
\* song in that pass, remembers its title and never appended it
C37_NonSongRemembered ==
    \E l \in LoopIds, s \in 1..NVideos :
        /\ tasks[l].kind = "radio"
        /\ tasks[l].pc = "poll"
        /\ ~LikelySong[s]
        /\ Key(s) \in states[l].played
        /\ \A v \in 1..NVideos : Key(v) = Key(s) => v \notin states[l].appended
        /\ Cardinality(states[l].appended) = 5

\* C38: tracks are rendered in the order they were appended to the queue:
\* while a track is rendering, no track appended after it has had its
\* render started already.  (Track k is appended by the k-th play; a track
\* that was appended and is not in the queue, not being announced, not
\* handed to a callback and not refused by the voice client has started
\* to render, and only one player runs at a time.)
C38_RenderedInQueueOrder ==
    LET Waiting(t) ==
            \/ \E i \in DOMAIN TheQueue : TheQueue[i] = t
            \/ BagIn(t, synth)
            \/ \E c \in BagToSet(pending) : c.track = t
            \/ player.kind # "none" /\ player.track = t
        Started(t) == t <= cmds /\ ~Waiting(t) /\ t \notin dropped
    IN \A a, b \in 1..MaxCmds :
          (a < b /\ player.kind = "track" /\ player.track = a) => ~Started(b)

C40_FailedWisperLeavesPlayback ==
    [][(/\ BagCardinality(wispers') < BagCardinality(wispers)
        /\ player'.kind # "tts")
       => UNCHANGED <<player, pending, synth, TheQueue, current_track,
                      track_start_time>>]_vars

\* The track that was rendering when wisper was given is still rendering
\* from its start, a second past the command, and no message was spoken
C40_StillRenderingAfterWisper ==
    /\ reply[1] = "wisper"
    /\ wispers = EmptyBag
    /\ pending = EmptyBag
    /\ player.kind = "track"
    /\ ~player.paused
    /\ player.seek = 0
    /\ player.track = current_track
    /\ now > track_start_time

====
